---- MODULE Spec2Model ----
(***************************************************************************)
(* A model of dfm, the dotfiles manager: the configuration (ordered repo   *)
(* list and manifest), the repos and the target directory on disk, and the *)
(* commands that reconcile them (link, copy, remove, eject, add, init).    *)
(*                                                                         *)
(* Relative paths are sequences of path components, so that the parent     *)
(* directory of a path is a prefix of it.  The target tree maps every node *)
(* (file path or directory) to what is on disk there.  A symlink is        *)
(* recorded with the repo it points into: dfm only ever links              *)
(* target/<relative> to <repo>/<relative>.  A regular file is recorded     *)
(* with an identity of its content: the name of the repo whose file it was *)
(* written from, or "user" for a file dfm did not write.                   *)
(***************************************************************************)
EXTENDS Naturals, Sequences, FiniteSets, TLC

\* ------------------------------------------------------------------------
\* The universe of the model
\* ------------------------------------------------------------------------

\* The repos that may exist in the dfm directory.
AllRepos == {"one", "two", "three"}

\* The relative paths of files, in the order of sort.Strings and of
\* afero.Walk (lexical).
PathOrder == << <<"a">>, <<"b">>, <<"d", "c">> >>

Paths == {PathOrder[i] : i \in 1..Len(PathOrder)}

\* The root of a tree: the empty relative path ("." as an input).
Root == << >>

Parent(p) == SubSeq(p, 1, Len(p) - 1)

IsPrefix(q, p) == Len(q) <= Len(p) /\ SubSeq(p, 1, Len(q)) = q

\* The directories below the root that hold some path.
Dirs == UNION {{SubSeq(p, 1, n) : n \in 1..(Len(p) - 1)} : p \in Paths}

Nodes == Paths \cup Dirs

\* How often the handler may answer Retry for one file before the model
\* stops offering that answer (the loop in the code is unbounded).
MaxRetries == 1

\* How many commands one behaviour runs.
MaxCommands == 1

\* ------------------------------------------------------------------------
\* Values
\* ------------------------------------------------------------------------

OperationAdd == "added"

OperationLink == "linked"

OperationCopy == "copied"

OperationRemove == "removed"

OperationSkip == "skipped"

\* What is at a node of the target tree.
Absent == [kind |-> "absent", src |-> ""]

DirEntry == [kind |-> "dir", src |-> ""]

FileEntry(content) == [kind |-> "file", src |-> content]

LinkEntry(repo) == [kind |-> "link", src |-> repo]

\* Content of a file that dfm did not write.
UserContent == "user"

\* File names as the program sees them are strings: sequences of symbols, of
\* which "/" separates the components.
EmptyString == << >>

Slash == <<"/">>

\* path.IsAbs
IsAbs(name) == name # EmptyString /\ name[1] = "/"

\* path.Join of a directory and a name.
Join(dir, name) ==
    IF name = EmptyString \/ name = <<".">> THEN dir
    ELSE IF dir = EmptyString THEN name
    ELSE dir \o Slash \o name

\* $HOME, the default target; the dfm directory, which is also the working
\* directory of the process.
Home == <<"/", "h">>

WorkDir == <<"/", "h", "/", "dfm">>

\* No file at a path of a repo.
NoFile == ""

\* Errors.  type tells a *FileError from an error of the os package, a plain
\* error and the two sentinels; cause is the errno of the underlying error,
\* "ErrNotNeeded", or "" when there is none.
NoError == [type |-> "nil", filename |-> Root, message |-> "", cause |-> ""]

Retry == [type |-> "Retry", filename |-> Root, message |-> "retry this file", cause |-> ""]

ErrNotNeeded ==
    [type |-> "ErrNotNeeded", filename |-> Root, message |-> "already up to date",
     cause |-> ""]

\* An *os.PathError or *os.LinkError with the given errno.
OsError(errno) == [type |-> "os", filename |-> Root, message |-> errno, cause |-> errno]

\* An error made by fmt.Errorf.
PlainError(message) ==
    [type |-> "plain", filename |-> Root, message |-> message, cause |-> "plain"]

NewFileError(filename, message) ==
    [type |-> "FileError", filename |-> filename, message |-> message, cause |-> ""]

WrapFileError(cause, filename) ==
    IF cause.type = "FileError"
    THEN cause
    ELSE [type |-> "FileError", filename |-> filename, message |-> cause.message,
          cause |-> IF cause.type = "ErrNotNeeded" THEN "ErrNotNeeded" ELSE cause.cause]

IsNotNeeded(err) ==
    err = ErrNotNeeded \/ (err.type = "FileError" /\ err.cause = "ErrNotNeeded")

\* os.IsExist and os.IsNotExist.
IsExist(err) == err.cause = "EEXIST"

IsNotExist(err) == err.cause = "ENOENT"

VARIABLES
    repoDirs,      \* the repos whose root directory exists
    repoFiles,     \* repo -> path -> content of the file there, or NoFile
    target,        \* node -> entry: the target directory tree
    tomlFile,      \* the persisted .dfm.toml: [repos, manifest]
    repos,         \* Config.repos: the ordered active repos
    manifest,      \* Config.manifest: the tracked relative paths
    DryRun,        \* Dfm.DryRun
    pc,            \* position of the running command
    cmd,           \* the running command: [name, operation, full, link]
    fileList,      \* the ordered map relative -> repo of the pass
    idx,           \* position of the pass in fileList
    nextManifest,  \* the candidate manifest of the pass
    rawErr,        \* the failure handed to the ErrorHandler
    retries,       \* Retry answers for the current file so far
    invoked,       \* the paths handleFile was invoked for, in order
    handled,       \* the ErrorHandler's answers, in order: [relative, ret]
    log,           \* the Logger's entries of the command
    result,        \* the error the command returned (NoError: nil)
    pre,           \* the manifest and the target when the command started
    ncmds,         \* commands run so far
    last,          \* what the previous command of the behaviour was
    ejected,       \* the paths ejected so far whose copy dfm left in place
    targetPath,    \* Config.targetPath
    args,          \* the file names on the command line
    resolved,      \* the outcome of resolveInputFilenames for each of them
    names,         \* the directories and files of the file system, by name
    cli,           \* the command line: [stage, force, failed, status]
    env            \* the process function and the ErrorHandler of one processWithRetry

vars == <<repoDirs, repoFiles, target, tomlFile, repos, manifest, DryRun, pc,
          cmd, fileList, idx, nextManifest, rawErr, retries, invoked, handled,
          log, result, pre, ncmds, last, ejected, targetPath, args, resolved, names,
          cli, env>>

\* ------------------------------------------------------------------------
\* utils: the ordered map and the repo walk
\* ------------------------------------------------------------------------

\* The paths of a set as a sequence in lexical order.
SortedPaths(S) == SelectSeq(PathOrder, LAMBDA p : p \in S)

Keys(list) == {list[i].relative : i \in 1..Len(list)}

\* ordered_map.Set: a new key is appended, a known key keeps its place and
\* takes the new value.
MapSet(list, relative, value) ==
    IF relative \in Keys(list)
    THEN [i \in 1..Len(list) |->
            IF list[i].relative = relative
            THEN [relative |-> relative, repo |-> value]
            ELSE list[i]]
    ELSE Append(list, [relative |-> relative, repo |-> value])

MapGet(list, relative) ==
    LET i == CHOOSE j \in 1..Len(list) : list[j].relative = relative
    IN list[i].repo

\* Whether root/filename exists in a repo (the root itself for Root).
RepoHas(rf, rd, repo, filename) ==
    /\ repo \in rd
    /\ \/ filename = Root
       \/ \E p \in Paths : rf[repo][p] # NoFile /\ IsPrefix(filename, p)

\* The files afero.Walk reports below root/filename, in walk order.
WalkFiles(rf, repo, filename) ==
    SortedPaths({p \in Paths : rf[repo][p] # NoFile /\ IsPrefix(filename, p)})

RECURSIVE SetAll(_, _, _)
SetAll(list, files, value) ==
    IF files = << >>
    THEN list
    ELSE SetAll(MapSet(list, Head(files), value), Tail(files), value)

\* populateFileList: [err, list].
populateFileList(rf, rd, repo, filename, list) ==
    IF ~RepoHas(rf, rd, repo, filename)
    THEN [err |-> OsError("ENOENT"), list |-> list]
    ELSE [err |-> NoError, list |-> SetAll(list, WalkFiles(rf, repo, filename), repo)]

\* The inner loop of buildFileList over the active repos, for one input
\* path: [found, list].
RECURSIVE ScanRepos(_, _, _, _, _, _)
ScanRepos(rf, rd, order, path, found, list) ==
    IF order = << >>
    THEN [found |-> found, list |-> list]
    ELSE LET r == populateFileList(rf, rd, Head(order), path, list)
         IN ScanRepos(rf, rd, Tail(order), path,
                      found \/ r.err = NoError, r.list)

\* A variant of the scan in which the first repo holding a path keeps it.
RECURSIVE ScanReposFirstWins(_, _, _, _, _, _)
ScanReposFirstWins(rf, rd, order, path, found, list) ==
    IF order = << >>
    THEN [found |-> found, list |-> list]
    ELSE LET r == populateFileList(rf, rd, Head(order), path, << >>)
             fresh == SelectSeq(r.list, LAMBDA e : e.relative \notin Keys(list))
         IN ScanReposFirstWins(rf, rd, Tail(order), path,
                               found \/ r.err = NoError, list \o fresh)

ScanOneInputFirstWins(rf, rd, order, path, list) ==
    ScanReposFirstWins(rf, rd, order, path, FALSE, list)

\* One input path of buildFileList, scanned in every active repo.
ScanOneInput(rf, rd, order, path, list) ==
    ScanRepos(rf, rd, order, path, FALSE, list)

\* buildFileList: [err, list] for the input paths, in order.
RECURSIVE buildFileListFrom(_, _, _, _, _)
buildFileListFrom(rf, rd, order, paths, list) ==
    IF paths = << >>
    THEN [err |-> NoError, list |-> list]
    ELSE LET r == ScanOneInput(rf, rd, order, Head(paths), list)
         IN IF ~r.found
            THEN [err |-> NewFileError(Head(paths), "not found in any active repositories"),
                  list |-> << >>]
            ELSE buildFileListFrom(rf, rd, order, Tail(paths), r.list)

buildFileList(rf, rd, order, paths) ==
    buildFileListFrom(rf, rd, order, paths, << >>)

\* ------------------------------------------------------------------------
\* utils: the file primitives, on the target tree
\* ------------------------------------------------------------------------

\* The proper ancestors of a node below the root, nearest the root first.
Ancestors(n) == [i \in 1..(Len(n) - 1) |-> SubSeq(n, 1, i)]

\* The errno of resolving the directory a node lies in: "" when every
\* ancestor is a directory.
AncestorErrno(t, n) ==
    LET bad == {i \in 1..(Len(n) - 1) : t[Ancestors(n)[i]].kind # "dir"}
    IN IF bad = {}
       THEN ""
       ELSE LET i == CHOOSE j \in bad : \A k \in bad : j <= k
            IN IF t[Ancestors(n)[i]].kind = "absent" THEN "ENOENT" ELSE "ENOTDIR"

\* os.Lstat of a node of the target: the errno, or "".
LstatErrno(t, n) ==
    IF AncestorErrno(t, n) # ""
    THEN AncestorErrno(t, n)
    ELSE IF t[n].kind = "absent" THEN "ENOENT" ELSE ""

\* Whether the symlink at a node points at nothing.
Dangling(t, rf, rd, n) ==
    /\ t[n].kind = "link"
    /\ ~(t[n].src \in rd /\ rf[t[n].src][n] # NoFile)

\* fs.Stat finds something at the node (a symlink is followed).
StatExists(t, rf, rd, n) ==
    /\ LstatErrno(t, n) = ""
    /\ ~Dangling(t, rf, rd, n)

Children(t, dir) == {n \in Nodes : Parent(n) = dir /\ t[n].kind # "absent"}

\* IsLinkedFile (the OsFs case): [done, err].
IsLinkedFile(t, repo, relative) ==
    LET e == LstatErrno(t, relative)
    IN IF e = "ENOENT"
       THEN [done |-> FALSE, err |-> NoError]
       ELSE IF e # ""
            THEN [done |-> FALSE, err |-> OsError(e)]
            ELSE [done |-> t[relative] = LinkEntry(repo), err |-> NoError]

\* IsRegularFile: [regular, err].
IsRegularFile(t, relative) ==
    LET e == LstatErrno(t, relative)
    IN IF e # ""
       THEN [regular |-> FALSE, err |-> OsError(e)]
       ELSE [regular |-> t[relative].kind = "file", err |-> NoError]

\* MakeDirAll in the target (fs.MkdirAll): [err, target].
MakeDirAll(t, dir) ==
    LET chain == {SubSeq(dir, 1, i) : i \in 1..Len(dir)}
    IN IF \E q \in chain : t[q].kind \notin {"absent", "dir"}
       THEN [err |-> OsError("ENOTDIR"), target |-> t]
       ELSE [err |-> NoError,
             target |-> [n \in Nodes |-> IF n \in chain THEN DirEntry ELSE t[n]]]

\* LinkFile (os.Symlink): [err, target].
LinkFile(t, repo, relative) ==
    IF AncestorErrno(t, relative) # ""
    THEN [err |-> OsError(AncestorErrno(t, relative)), target |-> t]
    ELSE IF t[relative].kind # "absent"
         THEN [err |-> OsError("EEXIST"), target |-> t]
         ELSE [err |-> NoError, target |-> [t EXCEPT ![relative] = LinkEntry(repo)]]

\* RemoveFile (os.Remove): [err, target].
RemoveFile(t, n) ==
    IF LstatErrno(t, n) # ""
    THEN [err |-> OsError(LstatErrno(t, n)), target |-> t]
    ELSE IF Children(t, n) # {}
         THEN [err |-> OsError("ENOTEMPTY"), target |-> t]
         ELSE [err |-> NoError, target |-> [t EXCEPT ![n] = Absent]]

\* CleanDirectories: removes emptyDir and its ancestors below the root while
\* they are empty: [err, target].
RECURSIVE CleanDirectories(_, _)
CleanDirectories(t, emptyDir) ==
    IF ~(Len(emptyDir) > Len(Root) /\ IsPrefix(Root, emptyDir))
    THEN [err |-> NoError, target |-> t]
    ELSE IF t[emptyDir].kind # "dir"
         THEN [err |-> OsError(IF t[emptyDir].kind = "absent" THEN "ENOENT" ELSE "ENOTDIR"),
               target |-> t]
         ELSE IF Children(t, emptyDir) # {}
              THEN [err |-> NoError, target |-> t]
              ELSE CleanDirectories([t EXCEPT ![emptyDir] = Absent], Parent(emptyDir))

\* CopyFile (the OsFs case, cp -pn): the set of [err, target, repoFiles] the
\* platform's cp can produce.  A destination that is a dangling symlink is
\* not seen by fs.Stat; cp -n then leaves it alone, refuses to write through
\* it, or writes through it into the repo the link points into.
CopyFile(t, rf, rd, repo, relative) ==
    IF AncestorErrno(t, relative) # ""
    THEN {[err |-> PlainError("failed to copy file"), target |-> t, repoFiles |-> rf]}
    ELSE IF StatExists(t, rf, rd, relative)
         THEN {[err |-> OsError("EEXIST"), target |-> t, repoFiles |-> rf]}
         ELSE IF t[relative].kind = "absent"
              THEN {[err |-> NoError,
                     target |-> [t EXCEPT ![relative] = FileEntry(rf[repo][relative])],
                     repoFiles |-> rf]}
              ELSE {[err |-> NoError, target |-> t, repoFiles |-> rf],
                    [err |-> PlainError("failed to copy file"), target |-> t,
                     repoFiles |-> rf]}
                   \cup
                   (IF t[relative].src \in rd
                    THEN {[err |-> NoError, target |-> t,
                           repoFiles |-> [rf EXCEPT ![t[relative].src][relative] =
                                                        rf[repo][relative]]]}
                    ELSE {})

\* populateFileList over the target, for a relative path of a file:
\* [err, list].  afero.Walk hands the failure of Lstat to the callback, which
\* returns it; an entry that is no directory is set in the list.
populateTargetList(t, filename, list, value) ==
    IF LstatErrno(t, filename) # ""
    THEN [err |-> OsError(LstatErrno(t, filename)), list |-> list]
    ELSE IF t[filename].kind = "dir"
         THEN [err |-> NoError,
               list |-> SetAll(list,
                               SortedPaths({p \in Paths : /\ IsPrefix(filename, p)
                                                          /\ LstatErrno(t, p) = ""
                                                          /\ t[p].kind # "dir"}),
                               value)]
         ELSE [err |-> NoError, list |-> MapSet(list, filename, value)]

\* A variant of MoveFile that takes the file out of the target and puts
\* nothing into the repo.
MoveFileDropsFile(t, rf, repo, relative) ==
    IF rf[repo][relative] # NoFile
    THEN [err |-> OsError("EEXIST"), target |-> t, repoFiles |-> rf]
    ELSE [err |-> NoError,
          target |-> [t EXCEPT ![relative] = Absent],
          repoFiles |-> rf]

\* MoveFile from the target into a repo (mv -n): [err, target, repoFiles].
MoveFile(t, rf, repo, relative) ==
    IF rf[repo][relative] # NoFile
    THEN [err |-> OsError("EEXIST"), target |-> t, repoFiles |-> rf]
    ELSE [err |-> NoError,
          target |-> [t EXCEPT ![relative] = Absent],
          repoFiles |-> [rf EXCEPT ![repo][relative] = t[relative].src]]

\* A variant of CopyFileToRepo that reports success and copies nothing.
CopyFileToRepoNothing(t, rf, repo, relative) ==
    [err |-> NoError, target |-> t, repoFiles |-> rf]

\* CopyFile from the target into a repo (cp -pn): [err, target, repoFiles].
CopyFileToRepo(t, rf, repo, relative) ==
    IF rf[repo][relative] # NoFile
    THEN [err |-> OsError("EEXIST"), target |-> t, repoFiles |-> rf]
    ELSE [err |-> NoError, target |-> t,
          repoFiles |-> [rf EXCEPT ![repo][relative] = t[relative].src]]

\* os.Remove of a file of a repo: [err, repoFiles].
RemoveRepoFile(rf, repo, relative) ==
    IF rf[repo][relative] = NoFile
    THEN [err |-> OsError("ENOENT"), repoFiles |-> rf]
    ELSE [err |-> NoError, repoFiles |-> [rf EXCEPT ![repo][relative] = NoFile]]

\* ------------------------------------------------------------------------
\* Dfm: the per-file operations
\* ------------------------------------------------------------------------

\* handleLink: the set of outcomes [err, target, repoFiles].
handleLink(t, rf, rd, dry, repo, relative) ==
    LET linked == IsLinkedFile(t, repo, relative)
        made == MakeDirAll(t, Parent(relative))
        lnk == LinkFile(made.target, repo, relative)
    IN IF linked.err # NoError
       THEN {[err |-> linked.err, target |-> t, repoFiles |-> rf]}
       ELSE IF linked.done
            THEN {[err |-> ErrNotNeeded, target |-> t, repoFiles |-> rf]}
            ELSE IF dry
                 THEN {[err |-> NoError, target |-> t, repoFiles |-> rf]}
                 ELSE IF made.err # NoError
                      THEN {[err |-> made.err, target |-> t, repoFiles |-> rf]}
                      ELSE {[err |-> lnk.err, target |-> lnk.target, repoFiles |-> rf]}

\* handleCopy: the set of outcomes [err, target, repoFiles].
handleCopy(t, rf, rd, dry, repo, relative) ==
    LET linked == IsLinkedFile(t, repo, relative)
        removed == IF linked.done THEN RemoveFile(t, relative)
                                  ELSE [err |-> NoError, target |-> t]
        made == MakeDirAll(removed.target, Parent(relative))
    IN IF dry
       THEN {[err |-> NoError, target |-> t, repoFiles |-> rf]}
       ELSE IF linked.err # NoError
            THEN {[err |-> linked.err, target |-> t, repoFiles |-> rf]}
            ELSE IF removed.err # NoError
                 THEN {[err |-> removed.err, target |-> t, repoFiles |-> rf]}
                 ELSE IF made.err # NoError
                      THEN {[err |-> made.err, target |-> removed.target, repoFiles |-> rf]}
                      ELSE CopyFile(made.target, rf, rd, repo, relative)

\* assertIsActiveRepo: the error, or NoError.
assertIsActiveRepo(rd, order, repo) ==
    IF repo \notin rd
    THEN PlainError("repo does not exist")
    ELSE IF \A i \in DOMAIN order : order[i] # repo
         THEN PlainError("repo is not active, cannot add files to it")
         ELSE NoError

\* addFile: [err, target, repoFiles].  The directories of a repo are not
\* modelled: MakeDirAll in an existing repo finds no file in its way.
addFile(t, rf, dry, repo, relativePath, link) ==
    LET regular == IsRegularFile(t, relativePath)
        linked == IsLinkedFile(t, repo, relativePath)
        moved == MoveFile(t, rf, repo, relativePath)
        lnk == LinkFile(moved.target, repo, relativePath)
        copied == CopyFileToRepo(t, rf, repo, relativePath)
        same(err) == [err |-> err, target |-> t, repoFiles |-> rf]
    IN IF regular.err # NoError
       THEN same(WrapFileError(regular.err, relativePath))
       ELSE IF ~regular.regular
            THEN IF linked.err # NoError
                 THEN same(linked.err)
                 ELSE IF linked.done
                      THEN same(ErrNotNeeded)
                      ELSE same(NewFileError(relativePath,
                                             "only regular files are supported"))
            ELSE IF dry
                 THEN same(NoError)
                 ELSE IF link
                      THEN IF moved.err # NoError
                           THEN same(WrapFileError(moved.err, relativePath))
                           ELSE IF lnk.err # NoError
                                THEN [err |-> WrapFileError(lnk.err, relativePath),
                                      target |-> moved.target,
                                      repoFiles |-> moved.repoFiles]
                                ELSE [err |-> NoError, target |-> lnk.target,
                                      repoFiles |-> moved.repoFiles]
                      ELSE IF copied.err # NoError
                           THEN same(WrapFileError(copied.err, relativePath))
                           ELSE copied

handleFile(operation, t, rf, rd, dry, repo, relative) ==
    IF operation = OperationLink
    THEN handleLink(t, rf, rd, dry, repo, relative)
    ELSE handleCopy(t, rf, rd, dry, repo, relative)

\* ------------------------------------------------------------------------
\* errors: processWithRetry
\* ------------------------------------------------------------------------

\* A variant of processResult that keeps no reason for a file that is up to
\* date.
processResultNoReason(err) ==
    IF err = NoError
    THEN [handler |-> FALSE, skipped |-> FALSE, aborted |-> FALSE, reason |-> NoError]
    ELSE IF IsNotNeeded(err)
         THEN [handler |-> FALSE, skipped |-> TRUE, aborted |-> FALSE, reason |-> NoError]
         ELSE [handler |-> TRUE, skipped |-> FALSE, aborted |-> FALSE, reason |-> err]

\* A variant of processResult that asks the ErrorHandler about a file that
\* is up to date as well.
processResultAsksForAll(err) ==
    IF err = NoError
    THEN [handler |-> FALSE, skipped |-> FALSE, aborted |-> FALSE, reason |-> NoError]
    ELSE [handler |-> TRUE, skipped |-> FALSE, aborted |-> FALSE, reason |-> err]

\* What processWithRetry does with the result of one call of process, when
\* the ErrorHandler is not consulted: (skipped, aborted, reason), or handler
\* when the ErrorHandler decides.
processResult(err) ==
    IF err = NoError
    THEN [handler |-> FALSE, skipped |-> FALSE, aborted |-> FALSE, reason |-> NoError]
    ELSE IF IsNotNeeded(err)
         THEN [handler |-> FALSE, skipped |-> TRUE, aborted |-> FALSE, reason |-> err]
         ELSE [handler |-> TRUE, skipped |-> FALSE, aborted |-> FALSE, reason |-> err]

\* A variant of handlerResult that goes on to the next file when the handler
\* escalates.
handlerResultSkipsOnAbort(err, newErr) ==
    IF newErr = Retry
    THEN [retry |-> TRUE, skipped |-> FALSE, aborted |-> FALSE, reason |-> NoError]
    ELSE [retry |-> FALSE, skipped |-> TRUE, aborted |-> FALSE, reason |-> err]

\* A variant of handlerResult that aborts with the failure of the operation
\* instead of the value the handler returned.
handlerResultOwnError(err, newErr) ==
    IF newErr = NoError
    THEN [retry |-> FALSE, skipped |-> TRUE, aborted |-> FALSE, reason |-> err]
    ELSE IF newErr = Retry
         THEN [retry |-> TRUE, skipped |-> FALSE, aborted |-> FALSE, reason |-> NoError]
         ELSE [retry |-> FALSE, skipped |-> FALSE, aborted |-> TRUE, reason |-> err]

\* A variant of handlerResult that skips the file when the handler asks for
\* another attempt.
handlerResultNoRetry(err, newErr) ==
    IF newErr \in {NoError, Retry}
    THEN [retry |-> FALSE, skipped |-> TRUE, aborted |-> FALSE, reason |-> err]
    ELSE [retry |-> FALSE, skipped |-> FALSE, aborted |-> TRUE, reason |-> newErr]

\* A variant of handlerResult that forgets the failure the handler let go.
handlerResultForgetsReason(err, newErr) ==
    IF newErr = NoError
    THEN [retry |-> FALSE, skipped |-> TRUE, aborted |-> FALSE, reason |-> NoError]
    ELSE IF newErr = Retry
         THEN [retry |-> TRUE, skipped |-> FALSE, aborted |-> FALSE, reason |-> NoError]
         ELSE [retry |-> FALSE, skipped |-> FALSE, aborted |-> TRUE, reason |-> newErr]

\* What processWithRetry does with the ErrorHandler's return value newErr
\* for the failure err: retry, or return (skipped, aborted, reason).
handlerResult(err, newErr) ==
    IF newErr = NoError
    THEN [retry |-> FALSE, skipped |-> TRUE, aborted |-> FALSE, reason |-> err]
    ELSE IF newErr = Retry
         THEN [retry |-> TRUE, skipped |-> FALSE, aborted |-> FALSE, reason |-> NoError]
         ELSE [retry |-> FALSE, skipped |-> FALSE, aborted |-> TRUE, reason |-> newErr]

\* An error an ErrorHandler may make up instead of the one it was given.
HandlerError == NewFileError(Root, "handler gave up")

\* The answers of an ErrorHandler to a failure: its return value, and
\* whether it removed the file in the way first (the command line's handler
\* under --force, for an "already exists" failure: Retry when the removal
\* worked, nil when it did not).
HandlerAnswers(err) ==
    {[ret |-> r, remove |-> FALSE] : r \in {NoError, Retry, err, HandlerError}}
    \cup (IF IsExist(err) THEN {[ret |-> Retry, remove |-> TRUE]} ELSE {})

\* ------------------------------------------------------------------------
\* Dfm: autoclean
\* ------------------------------------------------------------------------

LogEntry(operation, relative, repo, reason) ==
    [operation |-> operation, relative |-> relative, repo |-> repo, reason |-> reason]

\* A variant of dropsFromManifest that drops the path whether its removal
\* worked or not.
dropsFromManifestAlways(err) == err = NoError \/ err # NoError

\* Whether autoclean drops a path from the manifest, given the error of its
\* removal.
dropsFromManifest(err) == err = NoError

\* A variant of autocleanLoop that gives up at the first removal that fails.
RECURSIVE autocleanLoopStops(_, _, _, _, _)
autocleanLoopStops(toRemove, t, man, lg, dry) ==
    IF toRemove = << >>
    THEN [target |-> t, manifest |-> man, log |-> lg]
    ELSE LET filename == Head(toRemove)
             rm == RemoveFile(t, filename)
             cl == IF rm.err = NoError
                   THEN CleanDirectories(rm.target, Parent(filename))
                   ELSE rm
             err == IF dry THEN NoError ELSE cl.err
             lg2 == Append(lg, LogEntry(OperationRemove, filename, "", err))
         IN IF err # NoError
            THEN [target |-> t, manifest |-> man, log |-> lg2]
            ELSE autocleanLoopStops(Tail(toRemove),
                                    IF dry THEN t ELSE cl.target,
                                    man \ {filename}, lg2, dry)

\* A variant of autocleanLoop that removes in a dry run as it does otherwise.
RECURSIVE autocleanLoopNeverDry(_, _, _, _, _)
autocleanLoopNeverDry(toRemove, t, man, lg, dry) ==
    IF toRemove = << >>
    THEN [target |-> t, manifest |-> man, log |-> lg]
    ELSE LET filename == Head(toRemove)
             rm == RemoveFile(t, filename)
             cl == IF rm.err = NoError
                   THEN CleanDirectories(rm.target, Parent(filename))
                   ELSE rm
         IN autocleanLoopNeverDry(Tail(toRemove),
                                  cl.target,
                                  IF cl.err = NoError THEN man \ {filename} ELSE man,
                                  Append(lg, LogEntry(OperationRemove, filename, "", cl.err)),
                                  dry)

\* The loop of autoclean over the sorted paths to remove:
\* [target, manifest, log].
RECURSIVE autocleanLoop(_, _, _, _, _)
autocleanLoop(toRemove, t, man, lg, dry) ==
    IF toRemove = << >>
    THEN [target |-> t, manifest |-> man, log |-> lg]
    ELSE LET filename == Head(toRemove)
             rm == RemoveFile(t, filename)
             cl == IF rm.err = NoError
                   THEN CleanDirectories(rm.target, Parent(filename))
                   ELSE rm
             err == IF dry THEN NoError ELSE cl.err
         IN autocleanLoop(Tail(toRemove),
                          IF dry THEN t ELSE cl.target,
                          IF dropsFromManifest(err) THEN man \ {filename} ELSE man,
                          Append(lg, LogEntry(OperationRemove, filename, "", err)),
                          dry)

\* A variant of autoclean that leaves the candidate manifest out of the
\* manifest.
autocleanForgetsNext(t, man, next, lg, dry) ==
    autocleanLoop(SortedPaths(man \ next), t, man, lg, dry)

\* A variant of autoclean that removes in descending order.
autocleanDescending(t, man, next, lg, dry) ==
    LET asc == SortedPaths(man \ next)
        desc == [i \in DOMAIN asc |-> asc[Len(asc) + 1 - i]]
        r == autocleanLoop(desc, t, man, lg, dry)
    IN [target |-> r.target, manifest |-> r.manifest \cup next, log |-> r.log]

\* autoclean: [target, manifest, log].
autoclean(t, man, next, lg, dry) ==
    LET r == autocleanLoop(SortedPaths(man \ next), t, man, lg, dry)
    IN [target |-> r.target, manifest |-> r.manifest \cup next, log |-> r.log]

\* ------------------------------------------------------------------------
\* The commands
\* ------------------------------------------------------------------------

NoTarget == [n \in Nodes |-> Absent]

NoRepoFiles == [r \in AllRepos |-> [p \in Paths |-> NoFile]]

NoDoc == [repos |-> << >>, manifest |-> {}]

\* The snapshot of a command's start, when no command runs.
NoPre == [manifest |-> {}, target |-> NoTarget, repoFiles |-> NoRepoFiles,
          tomlFile |-> NoDoc]

\* The manifest, the trees and the document as a command finds them.
Snapshot == [manifest |-> manifest, target |-> target, repoFiles |-> repoFiles,
             tomlFile |-> tomlFile]

NoCmd == [name |-> "", operation |-> "", full |-> FALSE, link |-> FALSE]

\* No processWithRetry on its own.
NoEnv == [process |-> << >>, handler |-> << >>]

\* The command line's state when dfm is used as a library: no flag, no exit.
NoCli == [stage |-> "none", force |-> FALSE, failed |-> FALSE, status |-> 0]

\* A variant of saveConfig that writes the document in dry-run too.
saveConfigAlways(doc, dry, order, man) == [repos |-> order, manifest |-> man]

\* saveConfig: the document after it.
saveConfig(doc, dry, order, man) ==
    IF dry THEN doc ELSE [repos |-> order, manifest |-> man]

\* A variant of mergeManifests that keeps the candidate manifest alone.
mergeManifestsNextOnly(next, man) == next

\* The manifest runSync leaves after an aborted pass: the candidate manifest
\* merged with the previous one.
mergeManifests(next, man) == next \cup man

\* A variant of recordAttempt that records nothing.
recordNothing(next, relative) == next

\* The candidate manifest once the pass has reached a path.
recordAttempt(next, relative) == next \cup {relative}

\* LinkAll, CopyAll: runSync up to the call of syncFiles.
StartSync ==
    /\ pc = "idle"
    /\ ncmds < MaxCommands
    /\ \E operation \in {OperationLink, OperationCopy}, dry \in BOOLEAN :
         LET bl == buildFileList(repoFiles, repoDirs, repos, <<Root>>)
         IN /\ DryRun' = dry
            /\ cmd' = [name |-> IF operation = OperationLink THEN "link" ELSE "copy",
                       operation |-> operation, full |-> TRUE, link |-> FALSE]
            /\ pre' = Snapshot
            /\ fileList' = bl.list
            /\ result' = bl.err
            /\ pc' = IF bl.err = NoError THEN "sync" ELSE "done"
    /\ idx' = 1
    /\ nextManifest' = {}
    /\ rawErr' = NoError
    /\ retries' = 0
    /\ invoked' = << >>
    /\ handled' = << >>
    /\ log' = << >>
    /\ UNCHANGED <<repoDirs, repoFiles, target, tomlFile, repos, manifest, ncmds,
                   last, ejected, targetPath, args, resolved, names, cli, env>>

\* syncFiles: one call of handleFile for the current path, and what
\* processWithRetry makes of its result.  runSync hands a fresh candidate
\* manifest to syncFiles, runPartialSync and EjectFiles the manifest itself.
SyncFile ==
    /\ pc = "sync"
    /\ result = NoError
    /\ idx <= Len(fileList)
    /\ LET relative == fileList[idx].relative
           repo == fileList[idx].repo
       IN \E out \in handleFile(cmd.operation, target, repoFiles, repoDirs, DryRun,
                                repo, relative) :
            LET raw == IF out.err = NoError THEN NoError
                       ELSE WrapFileError(out.err, relative)
                res == processResult(raw)
            IN /\ IF cmd.full
                  THEN /\ nextManifest' = recordAttempt(nextManifest, relative)
                       /\ UNCHANGED manifest
                  ELSE /\ manifest' = recordAttempt(manifest, relative)
                       /\ UNCHANGED nextManifest
               /\ invoked' = Append(invoked, relative)
               /\ target' = out.target
               /\ repoFiles' = out.repoFiles
               /\ IF res.handler
                  THEN /\ pc' = "handler"
                       /\ rawErr' = raw
                       /\ UNCHANGED <<idx, log, retries>>
                  ELSE /\ pc' = "sync"
                       /\ rawErr' = NoError
                       /\ idx' = idx + 1
                       /\ retries' = 0
                       /\ log' = Append(log,
                                   LogEntry(IF res.skipped THEN OperationSkip
                                            ELSE cmd.operation,
                                            relative, repo, res.reason))
    /\ UNCHANGED <<repoDirs, tomlFile, repos, DryRun, cmd, fileList,
                   handled, result, pre, ncmds, last, ejected, targetPath, args, resolved, names, cli, env>>

\* syncFiles, AddFiles: the ErrorHandler's answer to the failure of the current path,
\* and what processWithRetry makes of it.
SyncHandler ==
    /\ pc = "handler"
    /\ LET relative == fileList[idx].relative
           repo == fileList[idx].repo
       IN \E answer \in HandlerAnswers(rawErr) :
            LET rm == IF cmd.name = "add"
                      THEN [err |-> RemoveRepoFile(repoFiles, repo, relative).err,
                            target |-> target,
                            repoFiles |-> RemoveRepoFile(repoFiles, repo, relative).repoFiles]
                      ELSE [err |-> RemoveFile(target, relative).err,
                            target |-> RemoveFile(target, relative).target,
                            repoFiles |-> repoFiles]
                ret == IF answer.remove /\ rm.err # NoError THEN NoError ELSE answer.ret
                res == handlerResult(rawErr, ret)
            IN /\ res.retry => retries < MaxRetries
               /\ target' = IF answer.remove THEN rm.target ELSE target
               /\ repoFiles' = IF answer.remove THEN rm.repoFiles ELSE repoFiles
               /\ ejected' = IF answer.remove /\ rm.err = NoError
                             THEN ejected \ {relative} ELSE ejected
               /\ handled' = Append(handled, [relative |-> relative, ret |-> ret])
               /\ rawErr' = NoError
               /\ pc' = IF cmd.name = "add" THEN "add" ELSE "sync"
               /\ IF res.retry
                  THEN /\ retries' = retries + 1
                       /\ UNCHANGED <<idx, log, result>>
                  ELSE IF res.aborted
                       THEN /\ result' = res.reason
                            /\ UNCHANGED <<idx, log, retries>>
                       ELSE /\ idx' = idx + 1
                            /\ retries' = 0
                            /\ log' = Append(log, LogEntry(OperationSkip, relative,
                                                           repo, res.reason))
                            /\ UNCHANGED result
    /\ UNCHANGED <<repoDirs, tomlFile, repos, manifest, DryRun, cmd,
                   fileList, nextManifest, invoked, pre, ncmds, last, targetPath, args, resolved, names, cli, env>>

\* runSync after syncFiles: the merge of the manifests after an abort, the
\* autoclean otherwise, and saveConfig.
SyncFinish ==
    /\ pc = "sync"
    /\ cmd.full
    /\ result # NoError \/ idx > Len(fileList)
    /\ LET ac == autoclean(target, manifest, nextManifest, log, DryRun)
       IN IF result # NoError
          THEN /\ manifest' = mergeManifests(nextManifest, manifest)
               /\ tomlFile' = saveConfig(tomlFile, DryRun, repos,
                                         mergeManifests(nextManifest, manifest))
               /\ UNCHANGED <<target, log>>
          ELSE /\ manifest' = ac.manifest
               /\ target' = ac.target
               /\ log' = ac.log
               /\ tomlFile' = saveConfig(tomlFile, DryRun, repos, ac.manifest)
    /\ pc' = "done"
    /\ UNCHANGED <<repoDirs, repoFiles, repos, DryRun, cmd, fileList, idx,
                   nextManifest, rawErr, retries, invoked, handled, result, pre,
                   ncmds, last, ejected, targetPath, args, resolved, names, cli, env>>

\* The input paths of a command that names files: the whole tree, one file,
\* or one directory.
Inputs == {<<Root>>} \cup {<<n>> : n \in Nodes}

\* LinkFiles, CopyFiles, EjectFiles: up to the call of syncFiles.
StartPartialSync ==
    /\ pc = "idle"
    /\ ncmds < MaxCommands
    /\ \E name \in {"link", "copy", "eject"}, dry \in BOOLEAN, inputFilenames \in Inputs :
         LET bl == buildFileList(repoFiles, repoDirs, repos, inputFilenames)
         IN /\ DryRun' = dry
            /\ cmd' = [name |-> name,
                       operation |-> IF name = "link" THEN OperationLink
                                     ELSE OperationCopy,
                       full |-> FALSE, link |-> FALSE]
            /\ pre' = Snapshot
            /\ fileList' = bl.list
            /\ result' = bl.err
            /\ pc' = IF bl.err = NoError THEN "sync" ELSE "done"
    /\ idx' = 1
    /\ nextManifest' = {}
    /\ rawErr' = NoError
    /\ retries' = 0
    /\ invoked' = << >>
    /\ handled' = << >>
    /\ log' = << >>
    /\ UNCHANGED <<repoDirs, repoFiles, target, tomlFile, repos, manifest, ncmds,
                   last, ejected, targetPath, args, resolved, names, cli, env>>

\* runPartialSync and EjectFiles after syncFiles: EjectFiles deletes every
\* resolved path from the manifest; saveConfig.
PartialSyncFinish ==
    /\ pc = "sync"
    /\ ~cmd.full
    /\ result # NoError \/ idx > Len(fileList)
    /\ LET man == IF cmd.name = "eject" THEN manifest \ Keys(fileList) ELSE manifest
       IN /\ manifest' = man
          /\ tomlFile' = saveConfig(tomlFile, DryRun, repos, man)
    /\ ejected' = IF cmd.name = "eject" /\ ~DryRun
                  THEN ejected \cup {log[i].relative : i \in
                                        {j \in DOMAIN log :
                                            log[j].operation = OperationCopy}}
                  ELSE ejected
    /\ pc' = "done"
    /\ UNCHANGED <<repoDirs, repoFiles, target, repos, DryRun, cmd, fileList, idx,
                   nextManifest, rawErr, retries, invoked, handled, log, result,
                   pre, ncmds, last, targetPath, args, resolved, names, cli, env>>

\* AddFiles: populateFileList over the target for each input in turn, up to
\* the first that fails: [err, list].
RECURSIVE populateTargetLists(_, _, _, _)
populateTargetLists(t, inputFilenames, list, value) ==
    IF inputFilenames = << >>
    THEN [err |-> NoError, list |-> list]
    ELSE LET pl == populateTargetList(t, Head(inputFilenames), list, value)
         IN  IF pl.err # NoError
             THEN pl
             ELSE populateTargetLists(t, Tail(inputFilenames), pl.list, value)

\* AddFiles up to its loop: assertIsActiveRepo and the walk of the target.
\* The input is a path below the target and outside the dfm directory.
AddFilesOf(inputFilenames) ==
    /\ pc = "idle"
    /\ ncmds < MaxCommands
    /\ \E dry \in BOOLEAN, link \in BOOLEAN, repo \in AllRepos :
         LET active == assertIsActiveRepo(repoDirs, repos, repo)
             pl == populateTargetLists(target, inputFilenames, << >>, repo)
             err == IF active # NoError THEN active ELSE pl.err
         IN /\ DryRun' = dry
            /\ cmd' = [name |-> "add", operation |-> OperationAdd, full |-> FALSE,
                       link |-> link]
            /\ pre' = Snapshot
            /\ fileList' = IF err = NoError THEN pl.list ELSE << >>
            /\ result' = err
            /\ pc' = IF err = NoError THEN "add" ELSE "done"
    /\ idx' = 1
    /\ nextManifest' = {}
    /\ rawErr' = NoError
    /\ retries' = 0
    /\ invoked' = << >>
    /\ handled' = << >>
    /\ log' = << >>
    /\ UNCHANGED <<repoDirs, repoFiles, target, tomlFile, repos, manifest, ncmds,
                   last, ejected, targetPath, args, resolved, names, cli, env>>

\* AddFile: AddFiles with one input.
StartAddFiles == \E inputFilename \in Paths : AddFilesOf(<<inputFilename>>)

\* The lists of two different files.
AddPairs == {pair \in Paths \X Paths : pair[1] # pair[2]}

\* AddFiles with two inputs.
StartAddSeveral == \E inputFilenames \in AddPairs : AddFilesOf(inputFilenames)

\* A variant of recordAdded that tracks a skipped file as well.
recordAddedAlways(man, skip, relativePath) == man \cup {relativePath}

\* AddFiles: the manifest after a file that processWithRetry did not abort
\* on; a file that was not skipped is tracked.
recordAdded(man, skip, relativePath) ==
    IF skip THEN man ELSE man \cup {relativePath}

\* AddFiles: one call of addFile for the current file, and what
\* processWithRetry makes of its result.
AddFileStep ==
    /\ pc = "add"
    /\ result = NoError
    /\ idx <= Len(fileList)
    /\ LET filename == fileList[idx].relative
           repo == fileList[idx].repo
           out == addFile(target, repoFiles, DryRun, repo, filename, cmd.link)
           raw == IF out.err = NoError THEN NoError
                  ELSE WrapFileError(out.err, filename)
           res == processResult(raw)
       IN /\ invoked' = Append(invoked, filename)
          /\ target' = out.target
          /\ repoFiles' = out.repoFiles
          /\ IF res.handler
             THEN /\ pc' = "handler"
                  /\ rawErr' = raw
                  /\ UNCHANGED <<idx, log, retries, manifest>>
             ELSE /\ pc' = "add"
                  /\ rawErr' = NoError
                  /\ idx' = idx + 1
                  /\ retries' = 0
                  /\ manifest' = recordAdded(manifest, res.skipped, filename)
                  /\ log' = Append(log,
                              LogEntry(IF res.skipped THEN OperationSkip
                                       ELSE OperationAdd,
                                       filename, repo, res.reason))
    /\ UNCHANGED <<repoDirs, tomlFile, repos, DryRun, cmd, fileList, nextManifest,
                   handled, result, pre, ncmds, last, ejected, targetPath, args, resolved, names, cli, env>>

\* AddFiles after its loop: saveConfig.
AddFilesFinish ==
    /\ pc = "add"
    /\ result # NoError \/ idx > Len(fileList)
    /\ tomlFile' = saveConfig(tomlFile, DryRun, repos, manifest)
    /\ pc' = "done"
    /\ UNCHANGED <<repoDirs, repoFiles, target, repos, manifest, DryRun, cmd,
                   fileList, idx, nextManifest, rawErr, retries, invoked, handled,
                   log, result, pre, ncmds, last, ejected, targetPath, args, resolved, names, cli, env>>

\* A variant of removeFromNext that keeps no tracked path at all.
removeFromNextKeepsNone(next, inputFilenames, lg) ==
    [next |-> {}, log |-> lg]

\* The loop of RemoveFiles over its inputs: [next, log].
RECURSIVE removeFromNext(_, _, _)
removeFromNext(next, inputFilenames, lg) ==
    IF inputFilenames = << >>
    THEN [next |-> next, log |-> lg]
    ELSE LET filename == Head(inputFilenames)
         IN IF filename \notin next
            THEN removeFromNext(next, Tail(inputFilenames),
                                Append(lg, LogEntry(OperationSkip, filename, "",
                                           NewFileError(filename, "not tracked by dfm"))))
            ELSE removeFromNext(next \ {filename}, Tail(inputFilenames), lg)

\* RemoveAll (all) and RemoveFiles: the autoclean against the manifest
\* without the named files, and saveConfig.
RemoveFiles ==
    /\ pc = "idle"
    /\ ncmds < MaxCommands
    /\ \E dry \in BOOLEAN, all \in BOOLEAN, inputFilename \in Paths :
         LET rn == IF all THEN [next |-> {}, log |-> << >>]
                   ELSE removeFromNext(manifest, <<inputFilename>>, << >>)
             ac == autoclean(target, manifest, rn.next, rn.log, dry)
         IN /\ all => inputFilename = PathOrder[1]
            /\ DryRun' = dry
            /\ cmd' = [name |-> "remove", operation |-> OperationRemove,
                       full |-> all, link |-> FALSE]
            /\ pre' = Snapshot
            /\ nextManifest' = rn.next
            /\ target' = ac.target
            /\ manifest' = ac.manifest
            /\ log' = ac.log
            /\ tomlFile' = saveConfig(tomlFile, dry, repos, ac.manifest)
    /\ pc' = "done"
    /\ fileList' = << >>
    /\ idx' = 1
    /\ rawErr' = NoError
    /\ retries' = 0
    /\ invoked' = << >>
    /\ handled' = << >>
    /\ result' = NoError
    /\ UNCHANGED <<repoDirs, repoFiles, repos, ncmds, last, ejected, targetPath, args, resolved, names, cli, env>>

\* The repo lists dfm init is given with --repos.
InitRepos == {<<"one">>, <<"two", "one">>}

\* dfm init: the --repos option, when given, replaces Config.repos; Init
\* saves the configuration.
InitCommand ==
    /\ pc = "idle"
    /\ ncmds < MaxCommands
    /\ \E dry \in BOOLEAN, order \in InitRepos \cup {repos} :
         /\ DryRun' = dry
         /\ repos' = order
         /\ tomlFile' = saveConfig(tomlFile, dry, order, manifest)
    /\ cmd' = [name |-> "init", operation |-> "", full |-> FALSE, link |-> FALSE]
    /\ pre' = Snapshot
    /\ pc' = "done"
    /\ fileList' = << >>
    /\ idx' = 1
    /\ nextManifest' = {}
    /\ rawErr' = NoError
    /\ retries' = 0
    /\ invoked' = << >>
    /\ handled' = << >>
    /\ log' = << >>
    /\ result' = NoError
    /\ UNCHANGED <<repoDirs, repoFiles, target, manifest, ncmds, last, ejected, targetPath, args, resolved, names, cli, env>>

\* No previous command.
NoLast == [name |-> "", operation |-> "", full |-> FALSE, dry |-> FALSE,
           clean |-> FALSE]

\* The process ends; the next command loads the configuration afresh.  What
\* went before is not kept.
Exit ==
    /\ pc = "done"
    /\ pc' = "idle"
    /\ ncmds' = ncmds + 1
    /\ repos' = tomlFile.repos
    /\ manifest' = tomlFile.manifest
    /\ DryRun' = FALSE
    /\ cmd' = NoCmd
    /\ fileList' = << >>
    /\ idx' = 1
    /\ nextManifest' = {}
    /\ rawErr' = NoError
    /\ retries' = 0
    /\ invoked' = << >>
    /\ handled' = << >>
    /\ log' = << >>
    /\ result' = NoError
    /\ pre' = NoPre
    /\ last' = NoLast
    /\ ejected' = {}
    /\ UNCHANGED <<repoDirs, repoFiles, target, tomlFile, targetPath, args, resolved, names, cli, env>>

\* Whether the running command went through without any failure: it
\* returned nil, the handler was never consulted and nothing in the log has a
\* failure as its reason.
CleanRun ==
    /\ result = NoError
    /\ handled = << >>
    /\ \A i \in DOMAIN log : log[i].reason = NoError \/ IsNotNeeded(log[i].reason)

\* The process ends and dfm is run again on the same directories: the next
\* command loads the configuration afresh.
Rerun ==
    /\ pc = "done"
    /\ pc' = "idle"
    /\ last' = [name |-> cmd.name, operation |-> cmd.operation, full |-> cmd.full,
                dry |-> DryRun, clean |-> CleanRun]
    /\ repos' = tomlFile.repos
    /\ manifest' = tomlFile.manifest
    /\ DryRun' = FALSE
    /\ cmd' = NoCmd
    /\ fileList' = << >>
    /\ idx' = 1
    /\ nextManifest' = {}
    /\ rawErr' = NoError
    /\ retries' = 0
    /\ invoked' = << >>
    /\ handled' = << >>
    /\ log' = << >>
    /\ result' = NoError
    /\ pre' = NoPre
    /\ UNCHANGED <<repoDirs, repoFiles, target, tomlFile, ncmds, ejected,
                   targetPath, args, resolved, names, cli, env>>

\* Between two commands the user deletes a file from a repo.
DeleteRepoFile ==
    /\ pc = "idle"
    /\ \E repo \in repoDirs, relative \in Paths :
         /\ repoFiles[repo][relative] # NoFile
         /\ repoFiles' = [repoFiles EXCEPT ![repo][relative] = NoFile]
    /\ last' = NoLast
    /\ UNCHANGED <<repoDirs, target, tomlFile, repos, manifest, DryRun, pc, cmd,
                   fileList, idx, nextManifest, rawErr, retries, invoked, handled,
                   log, result, pre, ncmds, ejected, targetPath, args, resolved, names, cli, env>>

\* ------------------------------------------------------------------------
\* Initial states
\* ------------------------------------------------------------------------

\* The state of a process that has loaded its configuration and runs no
\* command yet.
Idle ==
    /\ repos = tomlFile.repos
    /\ manifest = tomlFile.manifest
    /\ DryRun = FALSE
    /\ pc = "idle"
    /\ cmd = NoCmd
    /\ fileList = << >>
    /\ idx = 1
    /\ nextManifest = {}
    /\ rawErr = NoError
    /\ retries = 0
    /\ invoked = << >>
    /\ handled = << >>
    /\ log = << >>
    /\ result = NoError
    /\ pre = NoPre
    /\ ncmds = 0
    /\ last = NoLast
    /\ ejected = {}
    /\ targetPath = Home
    /\ args = << >>
    /\ resolved = << >>
    /\ names = {}
    /\ cli = NoCli
    /\ env = NoEnv

\* The configured repo orders and the repo roots that exist: both repos
\* active in either order, one of them inactive, one of them missing, the
\* only active repo missing, and no repo configured.
Setups ==
    {[repos |-> <<"one", "two">>, dirs |-> {"one", "two"}],
     [repos |-> <<"two", "one">>, dirs |-> {"one", "two"}],
     [repos |-> <<"one">>, dirs |-> {"one", "two"}],
     [repos |-> <<"one", "two">>, dirs |-> {"one"}],
     [repos |-> <<"two">>, dirs |-> {"one"}],
     [repos |-> << >>, dirs |-> {"one", "two"}]}

\* What one relative path may look like when a command starts: the repos
\* that hold it, what is in the target, and whether the manifest tracks it.
Situations ==
    {[holders |-> {}, entry |-> Absent, tracked |-> FALSE],
     [holders |-> {"one"}, entry |-> Absent, tracked |-> FALSE],
     [holders |-> {"one", "two"}, entry |-> Absent, tracked |-> FALSE],
     [holders |-> {"one"}, entry |-> LinkEntry("one"), tracked |-> TRUE],
     [holders |-> {"two"}, entry |-> LinkEntry("one"), tracked |-> TRUE],
     [holders |-> {}, entry |-> LinkEntry("one"), tracked |-> TRUE],
     [holders |-> {}, entry |-> Absent, tracked |-> TRUE],
     [holders |-> {"one"}, entry |-> FileEntry(UserContent), tracked |-> FALSE]}

\* The situations of the second path, to keep the initial states few: not
\* in any repo, new in a repo, linked and tracked, and tracked but gone from
\* the repos.
FewSituations ==
    {[holders |-> {}, entry |-> Absent, tracked |-> FALSE],
     [holders |-> {"one"}, entry |-> Absent, tracked |-> FALSE],
     [holders |-> {"one"}, entry |-> LinkEntry("one"), tracked |-> TRUE],
     [holders |-> {}, entry |-> LinkEntry("one"), tracked |-> TRUE]}

\* The target tree in which every path has the entry of its situation, the
\* directories that hold an entry exist, and the directories of blocked are
\* regular files of the user.
TreeOf(sit, blocked) ==
    [n \in Nodes |->
        IF n \in Paths
        THEN sit[n].entry
        ELSE IF \E p \in Paths : IsPrefix(n, p) /\ sit[p].entry # Absent
             THEN DirEntry
             ELSE IF n \in blocked THEN FileEntry(UserContent) ELSE Absent]

InitOf(setup, sit, blocked) ==
    /\ repoDirs = setup.dirs
    /\ repoFiles = [r \in AllRepos |-> [p \in Paths |->
                       IF r \in sit[p].holders THEN r ELSE NoFile]]
    /\ target = TreeOf(sit, blocked)
    /\ tomlFile = [repos |-> setup.repos,
                   manifest |-> {p \in Paths : sit[p].tracked}]
    /\ Idle

Init ==
    \E setup \in Setups, sit \in [Paths -> Situations], blocked \in SUBSET Dirs :
        /\ \A p \in Paths : sit[p].holders \subseteq setup.dirs
        /\ sit[PathOrder[2]] \in FewSituations
        /\ \A d \in blocked : \A p \in Paths : IsPrefix(d, p) => sit[p].entry = Absent
        /\ InitOf(setup, sit, blocked)

\* Every order of distinct repos.
Orders ==
    {order \in UNION {[1..n -> AllRepos] : n \in 0..Cardinality(AllRepos)} :
        \A i, j \in DOMAIN order : order[i] = order[j] => i = j}

\* Initial states for the resolution alone: every order of active repos over
\* every content of the repos, an empty target and an empty manifest.
InitResolve ==
    \E order \in Orders, dirs \in SUBSET AllRepos,
       held \in [AllRepos -> SUBSET Paths] :
        /\ \A r \in AllRepos : r \notin dirs => held[r] = {}
        /\ repoDirs = dirs
        /\ repoFiles = [r \in AllRepos |-> [p \in Paths |->
                           IF p \in held[r] THEN r ELSE NoFile]]
        /\ target = NoTarget
        /\ tomlFile = [repos |-> order, manifest |-> {}]
        /\ Idle

NextResolve == StartSync

\* The paths in play in sequences of commands: a file at the top of the
\* tree and one in a directory.
SeqPaths == {PathOrder[1], PathOrder[3]}

\* Initial states for sequences of commands: one active repo, every content
\* of it, a target in which any path may hold a file of the user's, nothing
\* tracked yet.
InitSeq ==
    \E held \in SUBSET SeqPaths, own \in SUBSET SeqPaths :
        /\ repoDirs = {"one"}
        /\ repoFiles = [r \in AllRepos |-> [p \in Paths |->
                           IF r = "one" /\ p \in held THEN r ELSE NoFile]]
        /\ target = [n \in Nodes |->
                        IF n \in own THEN FileEntry(UserContent)
                        ELSE IF \E p \in own : IsPrefix(n, p) THEN DirEntry
                             ELSE Absent]
        /\ tomlFile = [repos |-> <<"one">>, manifest |-> {}]
        /\ Idle

\* Sequences of real (not dry-run) commands on the same directories: full
\* link and copy passes and ejections, with deletions from the repo between
\* them.
NextSeq ==
    \/ StartSync /\ ~DryRun'
    \/ StartPartialSync /\ cmd'.name = "eject" /\ ~DryRun'
    \/ SyncFile
    \/ SyncHandler
    \/ SyncFinish
    \/ PartialSyncFinish
    \/ Rerun
    \/ DeleteRepoFile

SpecSeq == InitSeq /\ [][NextSeq]_vars

SpecResolve == InitResolve /\ [][NextResolve]_vars

Next ==
    \/ StartSync
    \/ StartPartialSync
    \/ SyncFile
    \/ SyncHandler
    \/ SyncFinish
    \/ PartialSyncFinish
    \/ StartAddFiles
    \/ AddFileStep
    \/ AddFilesFinish
    \/ RemoveFiles
    \/ InitCommand
    \/ Exit

Spec == Init /\ [][Next]_vars

\* ------------------------------------------------------------------------
\* Properties
\* ------------------------------------------------------------------------

\* The active repos that hold a file at a path, by their index in the order.
HolderIndexes(p) ==
    {j \in DOMAIN repos : repos[j] \in repoDirs /\ repoFiles[repos[j]][p] # NoFile}

\* The state right after the resolution of a full pass.
JustResolved == pc = "sync" /\ cmd.full /\ invoked = << >> /\ idx = 1

\* C1: in a full pass the keys of the resolved mapping are exactly the paths
\* of the files found in at least one active repo, each key once, and each
\* path is mapped to the active repo of greatest index in the configured
\* order among those that hold it; the files of inactive repos do not
\* appear.
C1_LastRepoWins ==
    JustResolved =>
        /\ Keys(fileList) = {p \in Paths : HolderIndexes(p) # {}}
        /\ Len(fileList) = Cardinality(Keys(fileList))
        /\ \A i \in DOMAIN fileList :
             \E j \in HolderIndexes(fileList[i].relative) :
                /\ fileList[i].repo = repos[j]
                /\ \A k \in HolderIndexes(fileList[i].relative) : k <= j

\* C1 witness: a path held by two active repos is resolved while an inactive
\* repo holds a file that no active repo holds.
C1_Witness ==
    /\ JustResolved
    /\ \E p \in Paths : Cardinality(HolderIndexes(p)) >= 2
    /\ \E q \in Paths : /\ HolderIndexes(q) = {}
                        /\ \E r \in AllRepos : repoFiles[r][q] # NoFile

\* ------------------------------------------------------------------------
\* The sync pass
\* ------------------------------------------------------------------------

Range(seq) == {seq[i] : i \in DOMAIN seq}

\* The place of a path in the order of the pass.
PlaceOf(relative) == CHOOSE i \in DOMAIN fileList : fileList[i].relative = relative

\* How often handleFile was invoked for a path.
Invocations(relative) == Cardinality({i \in DOMAIN invoked : invoked[i] = relative})

\* The ErrorHandler's answers for a path, in order.
AnswersFor(relative) ==
    LET mine == SelectSeq(handled, LAMBDA h : h.relative = relative)
    IN [i \in DOMAIN mine |-> mine[i].ret]

\* The log entries of a path that are not removals.
SyncEntries(relative) ==
    {i \in DOMAIN log : log[i].relative = relative /\ log[i].operation # OperationRemove}

Removals == {i \in DOMAIN log : log[i].operation = OperationRemove}

\* A full pass (LinkAll, CopyAll) has returned.
FullPassDone == pc = "done" /\ cmd.full /\ cmd.name \in {"link", "copy"}

\* A link or copy pass, full or partial, has returned.
PassDone == pc = "done" /\ cmd.name \in {"link", "copy"}

\* The ErrorHandler escalated a failure: it returned neither nil nor Retry.
Escalation(i) == handled[i].ret \notin {NoError, Retry}

Escalated == \E i \in DOMAIN handled : Escalation(i)

\* C2: in a full pass a path is in the candidate manifest from the moment its
\* operation is attempted; once the pass has returned, a path whose
\* operation was applied, was already satisfied or failed and was suppressed
\* by the handler is in the manifest and autoclean has not removed it.
C2_RecordedBeforeAttempt ==
    /\ (cmd.full /\ cmd.name \in {"link", "copy"}) =>
          \A i \in DOMAIN invoked : invoked[i] \in nextManifest
    /\ FullPassDone =>
          \A i \in DOMAIN log :
             log[i].operation \in {cmd.operation, OperationSkip} =>
                /\ log[i].relative \in manifest
                /\ \A j \in Removals : log[j].relative # log[i].relative
                /\ ~DryRun => log[i].relative \in tomlFile.manifest

\* C2 witness: a completed pass in which one path was applied, another failed
\* and was suppressed by the handler, and autoclean removed an orphan.
C2_Witness ==
    /\ FullPassDone
    /\ result = NoError
    /\ \E i \in DOMAIN log : log[i].operation = cmd.operation
    /\ \E i \in DOMAIN log : /\ log[i].operation = OperationSkip
                             /\ ~IsNotNeeded(log[i].reason)
    /\ \E j \in Removals : log[j].reason = NoError

\* C3: when the handler escalates a failure in a full pass, the manifest the
\* pass leaves is the union of the manifest before the pass and the paths
\* attempted so far, the failing path included, and autoclean does not run:
\* no removal is logged, and no path outside the attempted ones changes in
\* the target.
C3_AbortKeepsManifest ==
    (FullPassDone /\ Escalated) =>
        /\ manifest = pre.manifest \cup Range(invoked)
        /\ handled[Len(handled)].relative \in manifest
        /\ Removals = {}
        /\ \A p \in Paths \ Range(invoked) : target[p] = pre.target[p]
        /\ ~DryRun => tomlFile.manifest = manifest

\* C3 witness: three resolved paths, the second of which aborts the pass
\* while the third, tracked before, is not attempted.
C3_Witness ==
    /\ FullPassDone
    /\ Escalated
    /\ Len(fileList) = 3
    /\ Range(invoked) = {fileList[1].relative, fileList[2].relative}
    /\ fileList[3].relative \in pre.manifest
    /\ fileList[2].relative \notin pre.manifest
    /\ manifest = Paths

\* C4: once the handler has escalated a failure for a path in a pass of
\* syncFiles (full or partial), the operation is not invoked again in the
\* pass: the escalation is the handler's last
\* answer, the path is the last one invoked, and no path later in the order
\* of the pass is ever invoked.
C4_AbortStopsPass ==
    cmd.name \in {"link", "copy", "eject"} =>
        \A i \in DOMAIN handled :
            Escalation(i) =>
                /\ i = Len(handled)
                /\ invoked[Len(invoked)] = handled[i].relative
                /\ \A j \in DOMAIN fileList :
                      j > PlaceOf(handled[i].relative) =>
                         fileList[j].relative \notin Range(invoked)

\* C4 witness: the pass has returned after an escalation for the first of
\* three resolved paths.
C4_Witness ==
    /\ FullPassDone
    /\ Escalated
    /\ Len(fileList) = 3
    /\ Range(invoked) = {fileList[1].relative}

\* The paths tracked before the pass that no active repo produces any more.
Orphans == pre.manifest \ Keys(fileList)

\* C5: after a full pass that completes without abort, not in dry-run and
\* with every removal succeeding, each path tracked before and no longer
\* produced by an active repo is gone from the target and from the manifest,
\* each path still produced is in the manifest and has kept its place in the
\* target, and the manifest is exactly the set of produced paths.
C5_AutocleanRemovesOrphans ==
    (/\ FullPassDone
     /\ result = NoError
     /\ ~DryRun
     /\ \A j \in Removals : log[j].reason = NoError) =>
        /\ \A p \in Orphans : target[p] = Absent /\ p \notin manifest
        /\ \A p \in Keys(fileList) :
              /\ p \in manifest
              /\ pre.target[p] # Absent => target[p] # Absent
        /\ manifest = Keys(fileList)
        /\ tomlFile.manifest = manifest

\* C5 witness: the tracked link of a file deleted from the repo is removed
\* and a file new in the repo is linked: the manifest goes from one path to
\* the other.
C5_Witness ==
    /\ FullPassDone
    /\ result = NoError
    /\ ~DryRun
    /\ \E p, q \in Paths :
          /\ p # q
          /\ pre.manifest = {p}
          /\ pre.target[p] = LinkEntry("one")
          /\ target[p] = Absent
          /\ pre.target[q] = Absent
          /\ target[q] = LinkEntry("one")
          /\ manifest = {q}

\* The removal entry of a path in the log.
RemovalsOf(p) == {j \in Removals : log[j].relative = p}

\* C6: autoclean handles each orphaned path on its own: the removal of each
\* is attempted and logged once, in sorted order, whatever became of the
\* others; a path whose removal failed keeps its failure in the log and
\* stays in the manifest, a path whose removal went through is gone from the
\* target and from the manifest, and no path is dropped from the manifest
\* with a failed removal.
C6_AutocleanIndependent ==
    (FullPassDone /\ result = NoError) =>
        /\ [i \in 1..Cardinality(Removals) |->
               log[Len(log) - Cardinality(Removals) + i].relative]
             = SortedPaths(Orphans)
        /\ \A p \in Orphans :
              \E j \in RemovalsOf(p) :
                 /\ RemovalsOf(p) = {j}
                 /\ log[j].reason # NoError <=> p \in manifest
                 /\ ~DryRun =>
                       /\ LstatErrno(pre.target, p) = "" =>
                             log[j].reason = NoError /\ target[p] = Absent
                       /\ LstatErrno(pre.target, p) # "" =>
                             log[j].reason # NoError /\ target[p] = pre.target[p]

\* C6 witness: of two orphaned paths the removal of the first fails and the
\* second is removed all the same.
C6_Witness ==
    /\ FullPassDone
    /\ result = NoError
    /\ ~DryRun
    /\ \E j, k \in Removals :
          /\ j < k
          /\ log[j].reason # NoError
          /\ log[j].relative \in manifest
          /\ log[k].reason = NoError
          /\ pre.target[log[k].relative] # Absent
          /\ target[log[k].relative] = Absent
          /\ log[k].relative \notin manifest

\* C7: a tracked file that is gone from the target and from every repo is
\* not tracked any more after the next full link pass.
C7_MissingLinkConverges ==
    (FullPassDone /\ cmd.name = "link" /\ result = NoError /\ ~DryRun) =>
        \A p \in pre.manifest :
            (/\ pre.target[p] = Absent
             /\ \A r \in AllRepos : pre.repoFiles[r][p] = NoFile) =>
                p \notin manifest

\* C8: processWithRetry follows the handler's return value for a failed
\* attempt: nil logs the file as skipped with the failure as reason and
\* moves on without another attempt, Retry keeps the pass at the same file
\* with nothing logged, and any other value ends the pass with that value as
\* the error returned.
C8_HandlerDecides ==
    [][pc = "handler" =>
         LET ret == handled'[Len(handled')].ret
             relative == fileList[idx].relative
         IN /\ Len(handled') = Len(handled) + 1
            /\ invoked' = invoked
            /\ ret = NoError =>
                  /\ log' = Append(log, LogEntry(OperationSkip, relative,
                                                 fileList[idx].repo, rawErr))
                  /\ idx' = idx + 1
                  /\ result' = NoError
            /\ ret = Retry =>
                  /\ log' = log
                  /\ idx' = idx
                  /\ result' = NoError
                  /\ pc' = (IF cmd.name = "add" THEN "add" ELSE "sync")
                  /\ retries' = retries + 1
            /\ ret \notin {NoError, Retry} =>
                  /\ log' = log
                  /\ result' = ret]_vars

\* C8 witness: a pass in which the handler answered Retry, then nil, and in
\* the end an error of its own making, which the pass returned.
C8_Witness ==
    /\ pc = "done"
    /\ \E i, j \in DOMAIN handled :
          /\ i < j
          /\ handled[i].ret = Retry
          /\ handled[j].ret = NoError
    /\ handled[Len(handled)].ret = HandlerError
    /\ result = HandlerError

\* C9: a handler that answers Retry once for a file and nil afterwards makes
\* exactly two invocations of the operation for that file, and a pass whose
\* handler gave no other answers succeeds; when the second invocation
\* succeeds the file is logged once, as applied and not as skipped, and is
\* in the manifest.
C9_RetryOnce ==
    (PassDone /\ invoked # << >>) =>
        /\ \A p \in Keys(fileList) :
              /\ AnswersFor(p) \in {<<Retry>>, <<Retry, NoError>>} =>
                    Invocations(p) = 2
              /\ AnswersFor(p) = <<Retry>> =>
                    /\ Cardinality(SyncEntries(p)) = 1
                    /\ \A i \in SyncEntries(p) :
                          log[i] = LogEntry(cmd.operation, p, MapGet(fileList, p), NoError)
                    /\ p \in manifest
        /\ (\A i \in DOMAIN handled : handled[i].ret \in {Retry, NoError}) =>
              result = NoError

\* C9 witness: the handler answered Retry once, the second invocation went
\* through, and the file is logged as applied.
C9_Witness ==
    /\ FullPassDone
    /\ result = NoError
    /\ \E p \in Keys(fileList) :
          /\ AnswersFor(p) = <<Retry>>
          /\ Invocations(p) = 2
          /\ \E i \in SyncEntries(p) : log[i].operation = cmd.operation

\* C10: while a command runs with DryRun set, whichever command it is and
\* whatever its per-file operations return, the target tree, the files of
\* the repos and the persisted configuration document are as the command
\* found them.
C10_DryRunTouchesNothing ==
    (pc # "idle" /\ DryRun) =>
        /\ target = pre.target
        /\ repoFiles = pre.repoFiles
        /\ tomlFile = pre.tomlFile

\* C10 witness: a full pass in dry-run that has logged a file as applied and
\* an orphan as removed, and whose in-memory manifest differs from the one
\* it started with.
C10_Witness ==
    /\ FullPassDone
    /\ DryRun
    /\ result = NoError
    /\ \E i \in DOMAIN log : log[i].operation = cmd.operation
    /\ \E j \in Removals : log[j].reason = NoError
    /\ manifest # pre.manifest
    /\ \E p \in Paths : pre.target[p] # Absent

\* ------------------------------------------------------------------------
\* Dry-run against the real pass
\* ------------------------------------------------------------------------

\* What handleFile returns in dry-run for a file of the pass, on the target
\* as the command found it (a dry-run pass never changes it).
DryRunOutcome(relative, repo) ==
    CHOOSE out \in handleFile(cmd.operation, pre.target, pre.repoFiles, repoDirs,
                              TRUE, repo, relative) : TRUE

\* The log entries of syncFiles in a dry-run pass over fileList, from its
\* i-th file on.  A file whose check fails in dry-run fails the same way in
\* the real pass and goes to the handler: its entry is the one the handler
\* decided in the real pass.
RECURSIVE DryRunEntries(_)
DryRunEntries(i) ==
    IF i > Len(fileList)
    THEN << >>
    ELSE LET relative == fileList[i].relative
             repo == fileList[i].repo
             raw == IF DryRunOutcome(relative, repo).err = NoError THEN NoError
                    ELSE WrapFileError(DryRunOutcome(relative, repo).err, relative)
             res == processResult(raw)
             mine == SelectSeq(log, LAMBDA e : /\ e.relative = relative
                                               /\ e.operation # OperationRemove)
         IN (IF res.handler
             THEN mine
             ELSE << LogEntry(IF res.skipped THEN OperationSkip ELSE cmd.operation,
                              relative, repo, res.reason) >>)
            \o DryRunEntries(i + 1)

\* The target, manifest and log a dry-run full pass ends with, had it been
\* started where the running pass started.
DryRunPass ==
    autoclean(pre.target, pre.manifest, Keys(fileList), DryRunEntries(1), TRUE)

\* C11: a real full pass that completes emits the same sequence of log
\* entries (operation, path, repo, reason) and computes the same in-memory
\* manifest as the dry-run pass from the state it started in.
C11_DryRunSameDecisions ==
    (FullPassDone /\ ~DryRun /\ result = NoError) =>
        /\ log = DryRunPass.log
        /\ manifest = DryRunPass.manifest

\* ------------------------------------------------------------------------
\* The same pass twice
\* ------------------------------------------------------------------------

\* The running command is a real full pass that repeats the previous
\* command, which was a real full pass of the same kind and went through
\* without any failure, and nothing was changed in between.
SecondRun ==
    /\ pc # "idle"
    /\ cmd.full
    /\ cmd.name \in {"link", "copy"}
    /\ ~DryRun
    /\ last.name = cmd.name
    /\ last.full
    /\ ~last.dry
    /\ last.clean

\* The running pass has changed nothing on disk and has logged every file
\* it has come to as skipped because it is already up to date.
NothingToDo ==
    /\ target = pre.target
    /\ repoFiles = pre.repoFiles
    /\ pc # "handler"
    /\ handled = << >>
    /\ \A i \in DOMAIN log :
          log[i].operation = OperationSkip /\ IsNotNeeded(log[i].reason)
    /\ pc = "done" =>
          /\ result = NoError
          /\ Len(log) = Len(fileList)
          /\ manifest = pre.manifest
          /\ tomlFile = pre.tomlFile

\* C12: the second of two full passes of the same kind (LinkAll, CopyAll)
\* with no change in between changes nothing on disk and logs every file as
\* skipped because it is already up to date.
C12_SecondSyncUpToDate == SecondRun => NothingToDo

\* C12 for LinkAll alone: the second of two full link passes with no change
\* in between, of which the first went through without any failure, changes
\* nothing on disk and logs every file as already up to date.
C12_SecondLinkUpToDate == (SecondRun /\ cmd.name = "link") => NothingToDo

\* C12 witness: a second full link pass over two files has returned.
C12_Witness ==
    /\ SecondRun
    /\ cmd.name = "link"
    /\ pc = "done"
    /\ Len(log) = 2


\* ------------------------------------------------------------------------
\* The configuration document dfm.toml and its in-memory form.

\* The fields of configFile.
ConfigKeys == {"repos", "target", "manifest"}

\* The lists with the elements of a set, each once, in every order: Go
\* iterates over a map in an unspecified order.
ListsOf(set) ==
    {list \in [1..Cardinality(set) -> set] :
        \A i, j \in 1..Cardinality(set) : list[i] = list[j] => i = j}

\* manifestToConfig: the keys of the manifest, in the order of the iteration.
manifestToConfig(man) == ListsOf(man)

\* configToManifest: the set of the listed paths.
configToManifest(list) == {list[i] : i \in DOMAIN list}

\* filepath.Abs: an absolute name is kept, a relative one is joined to the
\* working directory.
Abs(name) == IF IsAbs(name) THEN name ELSE Join(WorkDir, name)

\* A configFile value: the three fields and the slices that are nil.
ConfigFile(order, dir, list, nils) ==
    [Repos |-> order, Target |-> dir, Manifest |-> list, nil |-> nils]

\* defaultConfig: no repos, the home directory, no manifest.
defaultConfig == ConfigFile(<< >>, Home, << >>, {})

\* The in-memory settings that Config{} starts with.
ZeroConfig == [repos |-> << >>, targetPath |-> EmptyString, manifest |-> {}]

\* A variant of applyFile that does not read the target.
applyFileNoTarget(config, file) ==
    [repos      |-> IF "repos" \notin file.nil THEN file.Repos ELSE config.repos,
     targetPath |-> config.targetPath,
     manifest   |-> IF "manifest" \notin file.nil
                    THEN configToManifest(file.Manifest)
                    ELSE config.manifest]

\* A variant of applyFile that takes every setting from the file, set or
\* not.
applyFileOverwrites(config, file) ==
    [repos      |-> file.Repos,
     targetPath |-> file.Target,
     manifest   |-> configToManifest(file.Manifest)]

\* applyFile: every setting that the file sets replaces the current one.
applyFile(config, file) ==
    [repos      |-> IF "repos" \notin file.nil THEN file.Repos ELSE config.repos,
     targetPath |-> IF file.Target # EmptyString
                    THEN file.Target
                    ELSE config.targetPath,
     manifest   |-> IF "manifest" \notin file.nil
                    THEN configToManifest(file.Manifest)
                    ELSE config.manifest]

\* A document: whether dfm.toml exists, the keys it has and their values.
Document(order, dir, list, keys) ==
    [exists |-> TRUE, keys |-> keys, repos |-> order, target |-> dir,
     manifest |-> list]

NoDocument ==
    [exists |-> FALSE, keys |-> {}, repos |-> << >>, target |-> EmptyString,
     manifest |-> << >>]

\* toml.Unmarshal: a key that the document lacks leaves its field at the zero
\* value; an empty array gives an empty slice or a nil one.
Unmarshal(doc) ==
    {ConfigFile(IF "repos" \in doc.keys THEN doc.repos ELSE << >>,
                IF "target" \in doc.keys THEN doc.target ELSE EmptyString,
                IF "manifest" \in doc.keys THEN doc.manifest ELSE << >>,
                nils) :
        nils \in {n \in SUBSET {"repos", "manifest"} :
                    /\ "repos" \notin doc.keys => "repos" \in n
                    /\ "manifest" \notin doc.keys => "manifest" \in n
                    /\ ("repos" \in n /\ "repos" \in doc.keys) => doc.repos = << >>
                    /\ ("manifest" \in n /\ "manifest" \in doc.keys)
                           => doc.manifest = << >>}}

\* toml.Marshal of the configFile that Save fills in: all three keys.
Marshal(file) == Document(file.Repos, file.Target, file.Manifest, ConfigKeys)

\* The settings after SetDirectory read the given file.
LoadedConfig(file) ==
    LET applied == applyFile(applyFile(ZeroConfig, defaultConfig), file)
    IN  [applied EXCEPT !.targetPath = Abs(applied.targetPath)]

\* The settings after SetDirectory found no dfm.toml.
DefaultedConfig ==
    LET applied == applyFile(ZeroConfig, defaultConfig)
    IN  [applied EXCEPT !.targetPath = Abs(applied.targetPath)]

CurrentConfig == [repos |-> repos, targetPath |-> targetPath, manifest |-> manifest]

NoConfigPre == [repos |-> << >>, targetPath |-> EmptyString, manifest |-> {}]

ConfigUnchanged ==
    UNCHANGED <<repoDirs, repoFiles, target, DryRun, cmd, fileList, idx,
                nextManifest, rawErr, retries, invoked, handled, log, result,
                ncmds, last, ejected, args, resolved, names, cli, env>>

\* Config.SetDirectory: forget the settings, apply the defaults, then the
\* file when there is one, and make the target absolute.
SetDirectory ==
    /\ pc \in {"toml", "written"}
    /\ \E loaded \in (IF tomlFile.exists
                      THEN {LoadedConfig(file) : file \in Unmarshal(tomlFile)}
                      ELSE {DefaultedConfig}) :
        /\ repos' = loaded.repos
        /\ targetPath' = loaded.targetPath
        /\ manifest' = loaded.manifest
    /\ pc' = (IF pc = "toml" THEN "config" ELSE "reloaded")
    /\ UNCHANGED <<tomlFile, pre>>
    /\ ConfigUnchanged

\* The directories and repo lists of the command line.
TargetOptions == {EmptyString, <<"w">>, <<"/", "m">>}

RepoOptions == {<< >>, <<"two">>, <<"two", "one">>}

\* initConfig: the --repos and --target options, the target made absolute,
\* applied over the loaded settings; args keeps cliOptions.
ApplyOptions ==
    /\ pc = "config"
    /\ \E dir \in TargetOptions, order \in RepoOptions, nils \in SUBSET {"repos"} :
        LET cliOptions == ConfigFile(order,
                                     IF dir # EmptyString THEN Abs(dir) ELSE dir,
                                     << >>, nils \cup {"manifest"})
            applied == applyFile(CurrentConfig, cliOptions)
        IN  /\ "repos" \in nils => order = << >>
            /\ args' = <<cliOptions>>
            /\ repos' = applied.repos
            /\ targetPath' = applied.targetPath
            /\ manifest' = applied.manifest
    /\ pc' = "options"
    /\ UNCHANGED <<tomlFile, pre>>
    /\ UNCHANGED <<repoDirs, repoFiles, target, DryRun, cmd, fileList, idx,
                   nextManifest, rawErr, retries, invoked, handled, log, result,
                   ncmds, last, ejected, resolved, names, cli, env>>

\* Config.Save: the settings written as a document.
ConfigSave ==
    /\ pc \in {"config", "options"}
    /\ \E list \in manifestToConfig(manifest) :
        tomlFile' = Marshal(ConfigFile(repos, targetPath, list, {}))
    /\ pre' = CurrentConfig
    /\ pc' = "written"
    /\ UNCHANGED <<repos, targetPath, manifest>>
    /\ ConfigUnchanged

\* The documents a user can have written: every choice of keys, three repo
\* lists, an empty, a relative and an absolute target, and every list of
\* distinct tracked paths.
Documents ==
    {Document(order, dir, list, keys) :
        order \in {<< >>, <<"one">>, <<"one", "two">>},
        dir \in {EmptyString, <<"t">>, <<"/", "s">>},
        list \in UNION {ListsOf(set) : set \in SUBSET SeqPaths},
        keys \in SUBSET ConfigKeys}

InitConfig ==
    /\ tomlFile \in Documents \cup {NoDocument}
    /\ repoDirs = {}
    /\ repoFiles = NoRepoFiles
    /\ target = NoTarget
    /\ repos = ZeroConfig.repos
    /\ manifest = ZeroConfig.manifest
    /\ targetPath = ZeroConfig.targetPath
    /\ DryRun = FALSE
    /\ pc = "toml"
    /\ cmd = NoCmd
    /\ fileList = << >>
    /\ idx = 1
    /\ nextManifest = {}
    /\ rawErr = NoError
    /\ retries = 0
    /\ invoked = << >>
    /\ handled = << >>
    /\ log = << >>
    /\ result = NoError
    /\ pre = NoConfigPre
    /\ ncmds = 0
    /\ last = NoLast
    /\ ejected = {}
    /\ args = << >>
    /\ resolved = << >>
    /\ names = {}
    /\ cli = NoCli
    /\ env = NoEnv

NextConfig == SetDirectory \/ ApplyOptions \/ ConfigSave

SpecConfig == InitConfig /\ [][NextConfig]_vars

\* C13: saving any configuration the program holds and loading the same
\* directory again gives the same target path, the same ordered repo list and
\* the same manifest set; and a document that lacks a field (or no document)
\* loads with the default for it: the home directory as the target, no repos,
\* an empty manifest.
C13_ConfigRoundTrip ==
    /\ pc = "reloaded" =>
        /\ targetPath = pre.targetPath
        /\ repos = pre.repos
        /\ manifest = pre.manifest
    /\ pc = "config" =>
        /\ "target" \notin tomlFile.keys => targetPath = Home
        /\ "repos" \notin tomlFile.keys => repos = << >>
        /\ "manifest" \notin tomlFile.keys => manifest = {}

\* A reloaded configuration with a target other than the default, two repos
\* and two tracked paths that the document lists in the reverse order.
C13_Witness ==
    /\ pc = "reloaded"
    /\ targetPath # Home
    /\ Len(repos) = 2
    /\ manifest = SeqPaths
    /\ tomlFile.manifest = <<PathOrder[3], PathOrder[1]>>


\* ------------------------------------------------------------------------
\* The file names of the command line and of AddFiles.

\* strings.HasPrefix
HasPrefix(s, prefix) ==
    Len(prefix) <= Len(s) /\ SubSeq(s, 1, Len(prefix)) = prefix

\* The Go slice s[n:], defined for n <= len(s).
SliceFrom(s, n) == SubSeq(s, n + 1, Len(s))

\* pathJoin: the components joined from the last one backwards, stopping at
\* an absolute one.
RECURSIVE pathJoin(_)
pathJoin(components) ==
    IF components = << >>
    THEN EmptyString
    ELSE LET n == Len(components)
             joined == components[n]
         IN  IF n = 1 \/ IsAbs(joined)
             THEN joined
             ELSE pathJoin(Append(SubSeq(components, 1, n - 2),
                                  Join(components[n - 1], joined)))

\* Dfm.TargetPath and Dfm.RepoPath; the dfm directory is WorkDir.
TargetPathOf(relative) == pathJoin(<<targetPath, relative>>)

RepoPathOf(repo, relative) == pathJoin(<<WorkDir, <<repo>>, relative>>)

\* Whether a file name is the target root or lies below it.
InsideTarget(name) == name = targetPath \/ HasPrefix(name, targetPath \o Slash)

\* The regular files of the file system, in the order of a walk: two files
\* in the target and one in a directory y of it, one in the repo, and files
\* in the directories /hx and /hxy next to the target and in /m.
FileNameOrder ==
    << <<"/", "h", "/", "a">>,
       <<"/", "h", "/", "d", "/", "c">>,
       <<"/", "h", "/", "dfm", "/", "one", "/", "a">>,
       <<"/", "h", "/", "y", "/", "a">>,
       <<"/", "h", "x", "/", "a">>,
       <<"/", "h", "x", "y", "/", "a">>,
       <<"/", "m", "/", "a">> >>

\* afero.Walk: the regular files at or below a name.
WalkNames(name) ==
    SelectSeq(FileNameOrder,
              LAMBDA f : f = name \/ HasPrefix(f, name \o Slash))

\* The names a user gives: files of the target by their absolute name, a
\* directory of the target, a name below a file of the target, a name
\* relative to the working directory, a file of the repo, the target root
\* itself, and files outside of the target.
ArgNames ==
    {<<"/", "h", "/", "a">>, <<"/", "h", "/", "d">>, <<"one", "/", "a">>,
     <<"/", "h", "/", "a", "/", "x">>,
     <<"/", "h", "/", "dfm", "/", "one", "/", "a">>, <<"/", "h">>,
     <<"/", "h", "x", "/", "a">>, <<"/", "h", "x", "y", "/", "a">>,
     <<"/", "m", "/", "a">>}

\* The most file names on one command line.
MaxArgs == 2

ArgLists == UNION {[1..n -> ArgNames] : n \in 1..MaxArgs}

\* resolveInputFilenames: the prefixes a name may start with.
allowedPrefixes(allowRepoPath) ==
    (IF allowRepoPath
     THEN [i \in 1..Len(repos) |-> RepoPathOf(repos[i], EmptyString)]
     ELSE << >>) \o <<TargetPathOf(EmptyString)>>

\* resolveInputFilenames for one name: the rest of the absolute name behind
\* the first prefix it starts with and the separator; no such prefix is a
\* rejection; a name that is a prefix itself makes the slice fail.
resolveInput(input, allowRepoPath) ==
    LET absolute == Abs(input)
        prefixes == allowedPrefixes(allowRepoPath)
        matches == {i \in DOMAIN prefixes : HasPrefix(absolute, prefixes[i])}
    IN  IF matches = {}
        THEN [kind |-> "rejected", name |-> input]
        ELSE LET prefix == prefixes[CHOOSE i \in matches : \A j \in matches : i <= j]
             IN  IF Len(prefix) + 1 > Len(absolute)
                 THEN [kind |-> "panic", name |-> input]
                 ELSE [kind |-> "ok",
                       name |-> SliceFrom(absolute, Len(prefix) + 1)]

Accepted(input) == [kind |-> "ok", name |-> input]

InputsUnchanged ==
    UNCHANGED <<repoDirs, repoFiles, target, tomlFile, repos, manifest, DryRun,
                cmd, idx, nextManifest, rawErr, retries, invoked, handled, log,
                pre, ncmds, last, ejected, targetPath, args, names, cli, env>>

\* resolveInputFilenames, as runAdd, runLink, runCopy, runRemove and runEject
\* call it: repo paths are allowed for link, copy and remove.
ResolveInputs ==
    /\ pc = "args"
    /\ LET allowRepoPath == cmd.name \in {"link", "copy", "remove"}
           outcomes == [i \in DOMAIN args |-> resolveInput(args[i], allowRepoPath)]
           failed == {i \in DOMAIN args : outcomes[i].kind = "rejected"}
       IN  /\ resolved' = outcomes
           /\ IF \E i \in DOMAIN args : outcomes[i].kind = "panic"
              THEN pc' = "panic" /\ result' = NoError
              ELSE IF failed # {}
                   THEN /\ pc' = "exit"
                        /\ result' = NewFileError(
                               args[CHOOSE i \in failed : \A j \in failed : i <= j],
                               "not in target path")
                   ELSE pc' = "inputs" /\ result' = NoError
    /\ UNCHANGED fileList
    /\ InputsUnchanged

\* os.Lstat of a name that is no file and no directory: a regular file on
\* the way to it is ENOTDIR, otherwise the name does not exist.
LstatNameErrno(name) ==
    IF \E i \in DOMAIN FileNameOrder : HasPrefix(name, FileNameOrder[i] \o Slash)
    THEN "ENOTDIR"
    ELSE "ENOENT"

\* populateFileList over names: [kind, err, list].
populateNames(root, filename, list, value) ==
    LET walked == WalkNames(pathJoin(<<root, filename>>))
    IN  IF walked = << >>
        THEN [kind |-> "error", list |-> list,
              err |-> OsError(LstatNameErrno(pathJoin(<<root, filename>>)))]
        ELSE IF \E i \in DOMAIN walked : Len(root) + 1 > Len(walked[i])
             THEN [kind |-> "panic", err |-> NoError, list |-> list]
             ELSE [kind |-> "ok", err |-> NoError,
                   list |-> SetAll(list,
                                   [i \in DOMAIN walked |->
                                       SliceFrom(walked[i], Len(root) + 1)],
                                   value)]

\* AddFiles up to its loop over the files, for the remaining inputs.
RECURSIVE addInputs(_, _, _)
addInputs(inputFilenames, list, repo) ==
    IF inputFilenames = << >>
    THEN [kind |-> "ok", err |-> NoError, list |-> list]
    ELSE LET inputFilename == Head(inputFilenames)
             joined == pathJoin(<<targetPath, inputFilename>>)
             pl == populateNames(targetPath, inputFilename, list, repo)
         IN  IF ~HasPrefix(joined, targetPath)
             THEN [kind |-> "error", list |-> list,
                   err |-> NewFileError(inputFilename, "not in target path")]
             ELSE IF HasPrefix(joined, WorkDir)
             THEN [kind |-> "error", list |-> list,
                   err |-> NewFileError(inputFilename,
                       "cannot add a file already inside the dfm directory")]
             ELSE IF pl.kind # "ok"
             THEN pl
             ELSE addInputs(Tail(inputFilenames), pl.list, repo)

InputNames == [i \in DOMAIN resolved |-> resolved[i].name]

\* AddFiles up to its loop over the files.
AddFilesInputs ==
    /\ pc = "inputs"
    /\ cmd.name = "add"
    /\ LET repo == repos[1]
           active == assertIsActiveRepo(repoDirs, repos, repo)
           ai == addInputs(InputNames, << >>, repo)
       IN  IF active # NoError
           THEN pc' = "exit" /\ result' = active /\ fileList' = << >>
           ELSE /\ pc' = (IF ai.kind = "ok" THEN "operate"
                          ELSE IF ai.kind = "panic" THEN "panic" ELSE "exit")
                /\ result' = ai.err
                /\ fileList' = ai.list
    /\ UNCHANGED resolved
    /\ InputsUnchanged

\* buildFileList over names, for the remaining paths: [kind, err, list].
RECURSIVE buildNames(_, _)
buildNames(paths, list) ==
    IF paths = << >>
    THEN [kind |-> "ok", err |-> NoError, list |-> list]
    ELSE LET scans == [i \in DOMAIN repos |->
                          populateNames(RepoPathOf(repos[i], EmptyString),
                                        Head(paths), << >>, repos[i])]
             found == {i \in DOMAIN repos : scans[i].kind = "ok"}
             merged == IF found = {} THEN list
                       ELSE LET last_ == scans[CHOOSE i \in found :
                                                   \A j \in found : j <= i].list
                            IN  SetAll(list,
                                       [i \in DOMAIN last_ |-> last_[i].relative],
                                       repos[1])
             other == {i \in DOMAIN repos :
                          scans[i].kind = "error" /\ ~IsNotExist(scans[i].err)}
         IN  IF \E i \in DOMAIN repos : scans[i].kind = "panic"
             THEN [kind |-> "panic", err |-> NoError, list |-> << >>]
             ELSE IF other # {}
             THEN [kind |-> "error", list |-> << >>,
                   err |-> scans[CHOOSE i \in other : \A j \in other : i <= j].err]
             ELSE IF found = {}
             THEN [kind |-> "error", list |-> << >>,
                   err |-> NewFileError(Head(paths),
                               "not found in any active repositories")]
             ELSE buildNames(Tail(paths), merged)

\* LinkFiles, CopyFiles and EjectFiles up to syncFiles.
PartialInputs ==
    /\ pc = "inputs"
    /\ cmd.name \in {"link", "copy", "eject"}
    /\ LET bn == buildNames(InputNames, << >>)
       IN  /\ pc' = (IF bn.kind = "ok" THEN "operate"
                     ELSE IF bn.kind = "panic" THEN "panic" ELSE "exit")
           /\ result' = bn.err
           /\ fileList' = bn.list
    /\ UNCHANGED resolved
    /\ InputsUnchanged

\* RemoveFiles: the named files that are tracked go to autoclean.
RemoveInputs ==
    /\ pc = "inputs"
    /\ cmd.name = "remove"
    /\ fileList' = SetAll(<< >>,
                          SelectSeq(InputNames, LAMBDA name : name \in manifest),
                          "")
    /\ pc' = "operate"
    /\ result' = NoError
    /\ UNCHANGED resolved
    /\ InputsUnchanged

\* A command with file names on its command line, or a call of AddFiles with
\* the names as they are; one active repo, and a manifest with the two files
\* of the target.
InitInputs ==
    \E name \in {"add", "link", "copy", "remove", "eject"}, given \in ArgLists,
       direct \in BOOLEAN :
        /\ direct => name = "add"
        /\ cmd = [name |-> name, operation |-> "", full |-> FALSE, link |-> TRUE]
        /\ args = (IF direct THEN << >> ELSE given)
        /\ resolved = (IF direct THEN [i \in DOMAIN given |-> Accepted(given[i])]
                       ELSE << >>)
        /\ pc = (IF direct THEN "inputs" ELSE "args")
        /\ repoDirs = {"one"}
        /\ repoFiles = NoRepoFiles
        /\ target = NoTarget
        /\ tomlFile = NoDoc
        /\ repos = <<"one">>
        /\ manifest = {<<"a">>, <<"d", "/", "c">>}
        /\ targetPath = Home
        /\ names = {FileNameOrder[i] : i \in DOMAIN FileNameOrder}
        /\ cli = NoCli
        /\ env = NoEnv
        /\ DryRun = FALSE
        /\ fileList = << >>
        /\ idx = 1
        /\ nextManifest = {}
        /\ rawErr = NoError
        /\ retries = 0
        /\ invoked = << >>
        /\ handled = << >>
        /\ log = << >>
        /\ result = NoError
        /\ pre = NoPre
        /\ ncmds = 0
        /\ last = NoLast
        /\ ejected = {}

\* addFile over names, with linking: a name that is no file fails, a file
\* that the repo already has is not moved (MoveFile), any other is moved into
\* the repo, where it is a new name, and a symlink takes its place:
\* [err, names].
addName(ns, repo, relativePath) ==
    IF TargetPathOf(relativePath) \notin ns
    THEN [err |-> WrapFileError(OsError("ENOENT"), TargetPathOf(relativePath)),
          names |-> ns]
    ELSE IF RepoPathOf(repo, relativePath) \in ns
         THEN [err |-> WrapFileError(OsError("EEXIST"), RepoPathOf(repo, relativePath)),
               names |-> ns]
         ELSE [err |-> NoError, names |-> ns \cup {RepoPathOf(repo, relativePath)}]

\* The loop of AddFiles from the i-th file on, with an ErrorHandler that
\* returns nil (skip) or the failure itself (abort):
\* [err, names, manifest, log].
RECURSIVE addNames(_, _, _, _, _, _)
addNames(list, i, ns, man, lg, skip) ==
    IF i > Len(list)
    THEN [err |-> NoError, names |-> ns, manifest |-> man, log |-> lg]
    ELSE LET filename == list[i].relative
             repo == list[i].repo
             out == addName(ns, repo, filename)
             raw == IF out.err = NoError THEN NoError
                    ELSE WrapFileError(out.err, filename)
         IN  IF raw = NoError
             THEN addNames(list, i + 1, out.names, man \cup {filename},
                           Append(lg, LogEntry(OperationAdd, filename, repo, NoError)),
                           skip)
             ELSE IF skip
                  THEN addNames(list, i + 1, ns, man,
                                Append(lg, LogEntry(OperationSkip, filename, repo, raw)),
                                skip)
                  ELSE [err |-> raw, names |-> ns, manifest |-> man, log |-> lg]

\* AddFiles: its loop over the files, and saveConfig.
AddFilesLoop ==
    /\ pc = "operate"
    /\ cmd.name = "add"
    /\ \E skip \in BOOLEAN :
         LET out == addNames(fileList, 1, names, manifest, log, skip)
         IN  /\ names' = out.names
             /\ manifest' = out.manifest
             /\ log' = out.log
             /\ result' = out.err
             /\ tomlFile' = saveConfig(tomlFile, DryRun, repos, out.manifest)
    /\ pc' = "done"
    /\ UNCHANGED <<repoDirs, repoFiles, target, repos, DryRun, cmd, fileList, idx,
                   nextManifest, rawErr, retries, invoked, handled, pre, ncmds,
                   last, ejected, targetPath, args, resolved, cli, env>>

NextInputs ==
    ResolveInputs \/ AddFilesInputs \/ PartialInputs \/ RemoveInputs \/ AddFilesLoop

SpecInputs == InitInputs /\ [][NextInputs]_vars

\* The absolute names of the inputs of the command: of the command line's
\* names, or of the names AddFiles was called with.
GivenNames ==
    IF args # << >>
    THEN {Abs(args[i]) : i \in DOMAIN args}
    ELSE {pathJoin(<<targetPath, resolved[i].name>>) : i \in DOMAIN resolved}

InputsHandled == pc \in {"exit", "operate", "panic"}

RejectedNotInTarget ==
    pc = "exit" /\ result.type = "FileError" /\ result.message = "not in target path"

\* C14: a command with an input that does not lie inside the target root is
\* rejected with "not in target path", and every relative path the engine
\* goes on with is a location inside the target root (for add also: inside
\* the chosen repo).
C14_OutsideRejected ==
    InputsHandled =>
        /\ (\E name \in GivenNames : ~InsideTarget(name)) => RejectedNotInTarget
        /\ pc = "operate" =>
            \A i \in DOMAIN fileList :
                /\ InsideTarget(TargetPathOf(fileList[i].relative))
                /\ cmd.name = "add" =>
                    HasPrefix(RepoPathOf(repos[1], fileList[i].relative),
                              RepoPathOf(repos[1], EmptyString) \o Slash)

\* C14 (the part that holds): a command with an input whose absolute name
\* does not start with the string of the target root (nor, for link, copy
\* and remove, with that of an active repo) never comes to operate on files;
\* on the command line it is rejected with "not in target path" unless
\* resolving the names crashed, and so it is when it is the only input of
\* AddFiles.
C14_UnrelatedRejected ==
    (/\ InputsHandled
     /\ \E name \in GivenNames :
           /\ ~HasPrefix(name, targetPath)
           /\ \A i \in DOMAIN repos :
                 ~HasPrefix(name, RepoPathOf(repos[i], EmptyString)))
    => /\ pc # "operate"
       /\ (args # << >> /\ pc # "panic") => RejectedNotInTarget
       /\ (args = << >> /\ Len(resolved) = 1) => RejectedNotInTarget

\* AddFiles called with a file of /m and a file of the target: rejected.
C14_Witness ==
    /\ RejectedNotInTarget
    /\ cmd.name = "add"
    /\ args = << >>
    /\ Len(resolved) = 2
    /\ resolved[1].name = <<"/", "h", "/", "a">>
    /\ resolved[2].name = <<"/", "m", "/", "a">>


\* ------------------------------------------------------------------------
\* AddFiles with several inputs.

NextAdd == StartAddSeveral \/ AddFileStep \/ SyncHandler \/ AddFilesFinish

SpecAdd == Init /\ [][NextAdd]_vars

AddDone == pc = "done" /\ cmd.name = "add"

\* The failures of validation that AddFiles and addFile report.
RepoMessages == {"repo does not exist", "repo is not active, cannot add files to it"}

UnsupportedMessage == "only regular files are supported"

\* A file of the inputs was refused as unsupported: AddFiles returned that
\* error, or logged the file as skipped for it.
UnsupportedSeen ==
    \/ result.message = UnsupportedMessage
    \/ \E i \in DOMAIN log : log[i].reason.message = UnsupportedMessage

NothingAdded ==
    /\ target = pre.target
    /\ repoFiles = pre.repoFiles
    /\ manifest = pre.manifest
    /\ tomlFile = pre.tomlFile

\* C15: when AddFiles got several inputs and one of them failed validation
\* (the repo is not active or does not exist, or the file is of an
\* unsupported type), no file was moved, copied or linked and the manifest
\* is unchanged.
C15_ValidationAllOrNothing ==
    (AddDone /\ (result.message \in RepoMessages \/ UnsupportedSeen))
        => NothingAdded

\* C15 (the part that holds): when the repo is not active or does not exist,
\* AddFiles called no per-file operation and changed nothing.
C15_RepoValidationFatal ==
    (AddDone /\ result.message \in RepoMessages)
        => NothingAdded /\ invoked = << >> /\ log = << >>

\* AddFiles refused an inactive repo while two regular files of the target
\* were there to be added.
C15_Witness ==
    /\ AddDone
    /\ ~DryRun
    /\ result.message = "repo is not active, cannot add files to it"
    /\ Cardinality({p \in Paths : target[p].kind = "file"}) >= 2


\* ------------------------------------------------------------------------
\* Named inputs that no active repo has.

\* Whether no active repo has a file or directory of the relative name.
InNoRepo(name) ==
    \A i \in DOMAIN repos :
        WalkNames(pathJoin(<<RepoPathOf(repos[i], EmptyString), name>>)) = << >>

\* The named inputs that no active repo has, in the order of the inputs.
MissingInputs == SelectSeq(InputNames, InNoRepo)

\* LinkFiles, CopyFiles or EjectFiles was called and buildFileList returned.
PartialResolved ==
    /\ pc \in {"exit", "operate", "panic"}
    /\ cmd.name \in {"link", "copy", "eject"}
    /\ resolved # << >>
    /\ \A i \in DOMAIN resolved : resolved[i].kind = "ok"

NotFoundFor(name) == NewFileError(name, "not found in any active repositories")

\* C16: a targeted link, copy or eject with a named input that no active
\* repo has returns the "not found in any active repositories" error for
\* that input before syncFiles is called, with no file resolved and the
\* manifest as it was.
C16_MissingInputNotFound ==
    (PartialResolved /\ MissingInputs # << >>) =>
        /\ pc = "exit"
        /\ \E i \in DOMAIN MissingInputs : result = NotFoundFor(MissingInputs[i])
        /\ fileList = << >>

\* C16 (the part that holds): when no input before the first missing one
\* makes Lstat fail otherwise than by ENOENT, the error is the "not found"
\* one for the first missing input, syncFiles is not called and no file is
\* resolved, also when other inputs are in a repo.
C16_MissingInputFatal ==
    (/\ PartialResolved
     /\ MissingInputs # << >>
     /\ result.type # "os") =>
        /\ pc = "exit"
        /\ result = NotFoundFor(Head(MissingInputs))
        /\ fileList = << >>

\* A targeted eject of a file of the repo and of a directory no repo has.
C16_Witness ==
    /\ PartialResolved
    /\ cmd.name = "eject"
    /\ InputNames = << <<"a">>, <<"d">> >>
    /\ result = NotFoundFor(<<"d">>)


\* ------------------------------------------------------------------------
\* Active repos whose root directory does not exist.

\* runSync was called: a full link or copy pass is under way or has returned.
FullPassCalled == pc # "idle" /\ cmd.full /\ cmd.name \in {"link", "copy"}

\* buildFileList(".") failed: no active repo had the input.
NothingFound == result = NewFileError(Root, "not found in any active repositories")

\* The active repos whose root directory exists.
ExistingRepos == {repos[i] : i \in {j \in DOMAIN repos : repos[j] \in repoDirs}}

\* C17: an active repo without a root directory counts as an empty repo: the
\* resolution of a full pass does not fail for it, also when it is the only
\* active repo or when no repo is active.
C17_MissingRepoIsEmpty == FullPassCalled => ~NothingFound

\* C17 (the part that holds): when the root of at least one active repo
\* exists, the resolution of a full pass does not fail, and it resolves the
\* files of the active repos that exist.
C17_MissingRepoSkipped ==
    (FullPassCalled /\ ExistingRepos # {}) =>
        /\ ~NothingFound
        /\ Keys(fileList) =
               {p \in Paths : \E r \in ExistingRepos : repoFiles[r][p] # NoFile}

\* A full pass over two active repos of which one has no root directory, with
\* files resolved from the other.
C17_Witness ==
    /\ FullPassCalled
    /\ pc = "sync"
    /\ \E i \in DOMAIN repos : repos[i] \notin repoDirs
    /\ fileList # << >>


\* ------------------------------------------------------------------------
\* EjectFiles

\* EjectFiles returned, not in dry-run.
EjectDone == pc = "done" /\ cmd.name = "eject" /\ ~DryRun

\* The paths EjectFiles removed from the manifest.
Untracked == pre.manifest \ manifest

\* Whether the target holds a regular file with the content of the file of
\* the repo that the resolution chose for the path.
RealCopy(relative) ==
    /\ LstatErrno(target, relative) = ""
    /\ target[relative] = FileEntry(repoFiles[MapGet(fileList, relative)][relative])

\* C18: after EjectFiles, every path it removed from the manifest is in the
\* target as a regular file, a copy of the owning repo's file, whatever the
\* handler answered to the failures of the copy step.
C18_EjectLeavesRealCopy ==
    EjectDone => \A relative \in Untracked : RealCopy(relative)

\* The paths whose copy step EjectFiles logged as done.
CopiedPaths ==
    {log[i].relative : i \in {j \in DOMAIN log : log[j].operation = OperationCopy}}

\* Whether something other than a symlink that points at nothing was at the
\* path when the command started.
NotDanglingBefore(relative) ==
    ~Dangling(pre.target, pre.repoFiles, repoDirs, relative)

\* C18 (the part that holds): after EjectFiles, every path whose copy step
\* was applied, and at which no symlink pointing at nothing was in the way,
\* is in the target as a regular file, a copy of the owning repo's file.
C18_AppliedCopyIsReal ==
    EjectDone =>
        \A relative \in CopiedPaths :
            NotDanglingBefore(relative) => RealCopy(relative)

\* EjectFiles untracked a path whose copy was applied.
C18_Witness ==
    /\ EjectDone
    /\ \E relative \in Untracked \cap CopiedPaths :
          /\ pre.target[relative] = LinkEntry(MapGet(fileList, relative))
          /\ NotDanglingBefore(relative)
          /\ RealCopy(relative)


\* ------------------------------------------------------------------------
\* Ejected files in later passes.

\* C19: the copy that an ejection left in the target stays there through
\* every later sequence of full link and copy passes and deletions from the
\* repo, as long as no handler removes it by force.
C19_EjectedCopySurvives ==
    \A relative \in ejected : target[relative].kind = "file"

\* C19 (the part that holds): the per-file steps of a pass leave every
\* ejected copy as it is; link and copy refuse to overwrite it.
C19_PassKeepsEjectedCopy ==
    [][(pc = "sync" /\ pc' # "done") =>
          \A relative \in ejected : target'[relative] = target[relative]]_vars

\* A full link pass that came to an ejected file, still in the repo, and
\* skipped it.
C19_Witness ==
    /\ pc = "sync"
    /\ cmd.full
    /\ cmd.name = "link"
    /\ \E i \in DOMAIN log :
          /\ log[i].relative \in ejected
          /\ log[i].operation = OperationSkip
          /\ target[log[i].relative].kind = "file"


\* ------------------------------------------------------------------------
\* Eject without arguments.

\* EjectFiles returned after it resolved what the input "." resolves: the
\* files of all active repos.
EjectAllDone ==
    /\ EjectDone
    /\ buildFileList(pre.repoFiles, repoDirs, repos, <<Root>>)
           = [err |-> NoError, list |-> fileList]

\* C20: after an eject of "." that succeeded, the manifest is empty and no
\* path that was tracked is still a symlink in the target.
C20_EjectAllUntracksAll ==
    (EjectAllDone /\ CleanRun) =>
        /\ manifest = {}
        /\ \A relative \in pre.manifest : target[relative].kind # "link"

\* C20 (the part that holds): after an eject of "." that succeeded, the
\* manifest has lost exactly the tracked files of the active repos, and each
\* file of an active repo is a regular file in the target, a copy of the
\* repo's, unless a symlink pointing at nothing was in the way.
C20_EjectAllUntracksRepoFiles ==
    (EjectAllDone /\ CleanRun) =>
        /\ manifest = pre.manifest \ Keys(fileList)
        /\ \A relative \in Keys(fileList) :
              NotDanglingBefore(relative) => RealCopy(relative)

\* An eject of "." that succeeded on two tracked, linked files and left the
\* manifest empty.
C20_Witness ==
    /\ EjectAllDone
    /\ CleanRun
    /\ Cardinality(Keys(fileList)) >= 2
    /\ \A relative \in Keys(fileList) :
          /\ relative \in pre.manifest
          /\ pre.target[relative].kind = "link"
          /\ RealCopy(relative)
    /\ manifest = {}


\* ------------------------------------------------------------------------
\* The commands on named paths leave the other tracked paths alone.

\* LinkFiles, CopyFiles or RemoveFiles on named paths has returned.
TargetedDone ==
    /\ pc = "done"
    /\ ~cmd.full
    /\ cmd.name \in {"link", "copy", "remove"}

\* The tracked path is in the manifest and in the target as the command
\* found it.
KeptAsFound(p) ==
    /\ p \in manifest
    /\ target[p] = pre.target[p]
    /\ ~DryRun => p \in tomlFile.manifest

\* C21: LinkFiles, CopyFiles and RemoveFiles on named paths take no tracked
\* path out of the target or out of the manifest but those named.
\* RemoveFiles, given one name, keeps every tracked path but that one as it
\* was found, in a repo or not; LinkFiles and CopyFiles keep every tracked
\* path they did not resolve, and what they resolved lies at or below the
\* input.
C21_TargetedKeepsOthers ==
    TargetedDone =>
        /\ cmd.name = "remove" =>
              \E filename \in Paths :
                 \A p \in pre.manifest \ {filename} : KeptAsFound(p)
        /\ cmd.name # "remove" =>
              /\ \A p \in pre.manifest \ Keys(fileList) : KeptAsFound(p)
              /\ \E inputFilenames \in Inputs :
                    \A p \in Keys(fileList) : IsPrefix(inputFilenames[1], p)

\* C21 witness: a command on one named path took that tracked path out of
\* the target, while another tracked path, which no repo holds any more,
\* is still tracked and still in the target.
C21_Witness ==
    /\ TargetedDone
    /\ cmd.name = "remove"
    /\ ~DryRun
    /\ \E p, q \in pre.manifest :
          /\ p # q
          /\ p \notin manifest
          /\ pre.target[p] # Absent
          /\ target[p] = Absent
          /\ \A repo \in AllRepos : pre.repoFiles[repo][q] = NoFile
          /\ pre.target[q].kind = "link"
          /\ KeptAsFound(q)


\* ------------------------------------------------------------------------
\* The autoclean over file names: RemoveFile and CleanDirectories.

\* path.Dir of a clean name: the name without its last component.
Dir(name) ==
    LET slashes == {i \in DOMAIN name : name[i] = "/"}
    IN  IF slashes = {}
        THEN <<".">>
        ELSE LET i == CHOOSE j \in slashes : \A k \in slashes : k <= j
             IN IF i = 1 THEN Slash ELSE SubSeq(name, 1, i - 1)

\* The directories of the file system: the target roots, directories below
\* them, and a directory beside /h whose name starts with the same letters.
DirNames ==
    {Slash, <<"/", "h">>, <<"/", "h", "/", "d">>,
     <<"/", "h", "/", "d", "/", "e">>, <<"/", "h", "x">>}

\* The regular files (and symlinks) of the file system.
PlainNames ==
    {<<"/", "h", "/", "a">>, <<"/", "h", "/", "d", "/", "c">>,
     <<"/", "h", "/", "d", "/", "e", "/", "f">>,
     <<"/", "h", "/", "d", "/", "g">>}

\* The target roots of the configuration.
TargetRoots == {<<"/", "h">>, <<"/", "h", "/", "d">>}

\* The relative names of the files, as sort.Strings orders them.
RelativeOrder ==
    << <<"a">>, <<"c">>, <<"d", "/", "c">>, <<"d", "/", "e", "/", "f">>,
       <<"d", "/", "g">>, <<"e", "/", "f">>, <<"g">> >>

\* The names a manifest of the target root may hold: the files below it.
TrackedNames(root) ==
    {RelativeOrder[i] : i \in {j \in DOMAIN RelativeOrder :
                                  pathJoin(<<root, RelativeOrder[j]>>) \in PlainNames}}

\* sort.Strings over a set of relative names.
SortedNames(S) == SelectSeq(RelativeOrder, LAMBDA name : name \in S)

\* The entries of a directory.
Entries(ns, dir) == {n \in ns : n # dir /\ Dir(n) = dir}

\* RemoveFile over names (os.Remove): [err, names].
RemoveName(ns, name) ==
    IF name \notin ns
    THEN [err |-> OsError("ENOENT"), names |-> ns]
    ELSE IF Entries(ns, name) # {}
         THEN [err |-> OsError("ENOTEMPTY"), names |-> ns]
         ELSE [err |-> NoError, names |-> ns \ {name}]

\* A variant of CleanNames that goes on through the root.
RECURSIVE CleanNamesThroughRoot(_, _, _)
CleanNamesThroughRoot(ns, emptyDir, root) ==
    IF ~(Len(emptyDir) >= Len(root) /\ SubSeq(emptyDir, 1, Len(root)) = root)
    THEN [err |-> NoError, names |-> ns]
    ELSE IF emptyDir \notin ns
         THEN [err |-> OsError("ENOENT"), names |-> ns]
         ELSE IF Entries(ns, emptyDir) # {}
              THEN [err |-> NoError, names |-> ns]
              ELSE CleanNamesThroughRoot(ns \ {emptyDir}, Dir(emptyDir), root)

\* CleanDirectories over names: while emptyDir is longer than root and
\* starts with it, a directory with no entry is removed and its parent is
\* next: [err, names].
RECURSIVE CleanNames(_, _, _)
CleanNames(ns, emptyDir, root) ==
    IF ~(Len(emptyDir) > Len(root) /\ SubSeq(emptyDir, 1, Len(root)) = root)
    THEN [err |-> NoError, names |-> ns]
    ELSE IF emptyDir \notin ns
         THEN [err |-> OsError("ENOENT"), names |-> ns]
         ELSE IF Entries(ns, emptyDir) # {}
              THEN [err |-> NoError, names |-> ns]
              ELSE CleanNames(ns \ {emptyDir}, Dir(emptyDir), root)

CleanUnchanged ==
    UNCHANGED <<repoDirs, repoFiles, target, repos, rawErr, retries, invoked,
                handled, result, pre, ncmds, last, ejected, targetPath, args,
                resolved, cli, env>>

\* RemoveAll and RemoveFiles up to the loop of autoclean: the candidate
\* manifest and the sorted names to remove.
CleanStart ==
    /\ pc = "idle"
    /\ \E dry \in BOOLEAN, all \in BOOLEAN, filename \in TrackedNames(targetPath) :
         LET rn == IF all THEN [next |-> {}, log |-> << >>]
                   ELSE removeFromNext(manifest, <<filename>>, << >>)
             toRemove == SortedNames(manifest \ rn.next)
         IN /\ DryRun' = dry
            /\ cmd' = [name |-> "remove", operation |-> OperationRemove,
                       full |-> all, link |-> FALSE]
            /\ nextManifest' = rn.next
            /\ log' = rn.log
            /\ fileList' = [i \in DOMAIN toRemove |->
                               [relative |-> toRemove[i], repo |-> ""]]
    /\ idx' = 1
    /\ pc' = "clean"
    /\ UNCHANGED <<manifest, tomlFile, names>>
    /\ CleanUnchanged

\* autoclean: one turn of the loop over the names to remove.
CleanStep ==
    /\ pc = "clean"
    /\ idx <= Len(fileList)
    /\ LET filename == fileList[idx].relative
           rm == RemoveName(names, TargetPathOf(filename))
           cl == IF rm.err = NoError
                 THEN CleanNames(rm.names, Dir(TargetPathOf(filename)), targetPath)
                 ELSE rm
           err == IF DryRun THEN NoError ELSE cl.err
       IN /\ names' = IF DryRun THEN names ELSE cl.names
          /\ log' = Append(log, LogEntry(OperationRemove, filename, "", err))
          /\ manifest' = IF dropsFromManifest(err) THEN manifest \ {filename}
                         ELSE manifest
    /\ idx' = idx + 1
    /\ UNCHANGED <<pc, DryRun, cmd, fileList, nextManifest, tomlFile>>
    /\ CleanUnchanged

\* autoclean after its loop, and saveConfig.
CleanFinish ==
    /\ pc = "clean"
    /\ idx > Len(fileList)
    /\ manifest' = manifest \cup nextManifest
    /\ tomlFile' = saveConfig(tomlFile, DryRun, repos, manifest \cup nextManifest)
    /\ pc' = "done"
    /\ UNCHANGED <<DryRun, cmd, fileList, idx, nextManifest, log, names>>
    /\ CleanUnchanged

\* A file system in which every name lies in a directory, with the target
\* root in it, and a manifest of files of the target.
InitClean ==
    \E root \in TargetRoots, ns \in SUBSET (DirNames \cup PlainNames),
       man \in SUBSET PlainNames :
        /\ Slash \in ns
        /\ root \in ns
        /\ \A n \in ns : Dir(n) \in ns
        /\ targetPath = root
        /\ names = ns
        /\ cli = NoCli
        /\ env = NoEnv
        /\ manifest = {name \in TrackedNames(root) :
                          pathJoin(<<root, name>>) \in man}
        /\ tomlFile = [repos |-> <<"one">>, manifest |-> manifest]
        /\ repos = <<"one">>
        /\ repoDirs = {"one"}
        /\ repoFiles = NoRepoFiles
        /\ target = NoTarget
        /\ DryRun = FALSE
        /\ pc = "idle"
        /\ cmd = NoCmd
        /\ fileList = << >>
        /\ idx = 1
        /\ nextManifest = {}
        /\ rawErr = NoError
        /\ retries = 0
        /\ invoked = << >>
        /\ handled = << >>
        /\ log = << >>
        /\ result = NoError
        /\ pre = NoPre
        /\ ncmds = 0
        /\ last = NoLast
        /\ ejected = {}
        /\ args = << >>
        /\ resolved = << >>

NextClean == CleanStart \/ CleanStep \/ CleanFinish

SpecClean == InitClean /\ [][NextClean]_vars

\* The directories a name lies in, up to "/".
DirsAbove(name) ==
    {SubSeq(name, 1, i - 1) : i \in {j \in DOMAIN name : j > 1 /\ name[j] = "/"}}
        \cup {Slash}

\* Whether a name lies below the target root, component by component.
BelowRoot(name) == HasPrefix(name, targetPath \o Slash)

\* The directories above a file, below the target root, that hold nothing
\* but the file and the directories in between.
EmptiedBy(name) ==
    {dir \in DirsAbove(name) :
        /\ BelowRoot(dir)
        /\ {n \in names : HasPrefix(n, dir \o Slash)}
              \subseteq ({name} \cup DirsAbove(name))}

\* C22: in a turn of autoclean that removes a tracked file, not in dry-run,
\* the names that go are the file and each directory above it, below the
\* target root, that the removal left empty, up to the first that is not;
\* the removal is logged without a failure and the name leaves the manifest.
\* In every turn the target root and every name that is not below it stay.
C22_EmptyDirectoriesCleaned ==
    [][(pc = "clean" /\ idx' = idx + 1) =>
         LET filename == fileList[idx].relative
             name == TargetPathOf(filename)
         IN /\ (name \in names /\ ~DryRun) =>
                  /\ names' = names \ ({name} \cup EmptiedBy(name))
                  /\ log'[Len(log')] = LogEntry(OperationRemove, filename, "", NoError)
                  /\ filename \notin manifest'
            /\ \A n \in names : ~BelowRoot(n) => n \in names'
            /\ targetPath \in names']_vars

\* C22 witness: the tracked file d/e/f of the target /h was removed, with
\* it the directory e it was alone in, and not the directory d, which holds
\* another file, nor the directory beside the target root, which is empty.
C22_Witness ==
    /\ pc = "done"
    /\ targetPath = <<"/", "h">>
    /\ ~DryRun
    /\ \E i \in DOMAIN log :
          log[i] = LogEntry(OperationRemove, <<"d", "/", "e", "/", "f">>, "", NoError)
    /\ <<"/", "h", "/", "d", "/", "e">> \notin names
    /\ <<"/", "h", "/", "d", "/", "g">> \in names
    /\ <<"/", "h", "/", "d">> \in names
    /\ <<"/", "h", "x">> \in names
    /\ Entries(names, <<"/", "h", "x">>) = {}


\* ------------------------------------------------------------------------
\* The command line: --force, errorHandler and the exit status.

\* The flags are parsed before the command runs.
ParseFlags ==
    /\ pc = "idle"
    /\ cli.stage = "none"
    /\ \E force \in BOOLEAN :
         cli' = [stage |-> "run", force |-> force, failed |-> FALSE, status |-> 0]
    /\ UNCHANGED <<repoDirs, repoFiles, target, tomlFile, repos, manifest, DryRun,
                   pc, cmd, fileList, idx, nextManifest, rawErr, retries, invoked,
                   handled, log, result, pre, ncmds, last, ejected, targetPath,
                   args, resolved, names, env>>

\* A variant of errorHandler that under --force asks for another attempt
\* after every failure.
errorHandlerAlwaysRetries(force, failed, fileError, removeErr) ==
    IF force
    THEN [ret |-> Retry, failed |-> failed]
    ELSE [ret |-> NoError, failed |-> TRUE]

\* errorHandler of the command line, given the outcome removeErr of the
\* os.Remove it does under --force: the value it returns and the flag
\* failed after it.
errorHandler(force, failed, fileError, removeErr) ==
    IF force /\ IsExist(fileError)
    THEN IF removeErr # NoError
         THEN [ret |-> NoError, failed |-> failed]
         ELSE [ret |-> Retry, failed |-> failed]
    ELSE [ret |-> NoError, failed |-> TRUE]

\* syncFiles, AddFiles: errorHandler's answer to the failure of the current
\* path, and what processWithRetry makes of it; limit is the number of
\* retries of one file the model follows.
CliHandlerUpTo(limit) ==
    /\ pc = "handler"
    /\ cli.stage = "run"
    /\ LET relative == fileList[idx].relative
           repo == fileList[idx].repo
           remove == cli.force /\ IsExist(rawErr)
           rm == IF cmd.name = "add"
                 THEN [err |-> RemoveRepoFile(repoFiles, repo, relative).err,
                       target |-> target,
                       repoFiles |-> RemoveRepoFile(repoFiles, repo, relative).repoFiles]
                 ELSE [err |-> RemoveFile(target, relative).err,
                       target |-> RemoveFile(target, relative).target,
                       repoFiles |-> repoFiles]
           answer == errorHandler(cli.force, cli.failed, rawErr,
                                  IF remove THEN rm.err ELSE NoError)
           res == handlerResult(rawErr, answer.ret)
       IN /\ res.retry => retries < limit
          /\ cli' = [cli EXCEPT !.failed = answer.failed]
          /\ target' = IF remove THEN rm.target ELSE target
          /\ repoFiles' = IF remove THEN rm.repoFiles ELSE repoFiles
          /\ handled' = Append(handled, [relative |-> relative, ret |-> answer.ret])
          /\ rawErr' = NoError
          /\ pc' = IF cmd.name = "add" THEN "add" ELSE "sync"
          /\ IF res.retry
             THEN /\ retries' = retries + 1
                  /\ UNCHANGED <<idx, log, result>>
             ELSE IF res.aborted
                  THEN /\ result' = res.reason
                       /\ UNCHANGED <<idx, log, retries>>
                  ELSE /\ idx' = idx + 1
                       /\ retries' = 0
                       /\ log' = Append(log, LogEntry(OperationSkip, relative,
                                                      repo, res.reason))
                       /\ UNCHANGED result
    /\ UNCHANGED <<repoDirs, tomlFile, repos, manifest, DryRun, cmd, fileList,
                   nextManifest, invoked, pre, ncmds, last, ejected, targetPath,
                   args, resolved, names, env>>

CliHandler == CliHandlerUpTo(MaxRetries)

\* handleCommandError: the exit status is 1 for an error of the command, 2
\* when failed is set, 0 otherwise.
CliExit ==
    /\ pc = "done"
    /\ cli.stage = "run"
    /\ cli' = [cli EXCEPT !.stage = "exited",
                          !.status = IF result # NoError THEN 1
                                     ELSE IF cli.failed THEN 2 ELSE 0]
    /\ UNCHANGED <<repoDirs, repoFiles, target, tomlFile, repos, manifest, DryRun,
                   pc, cmd, fileList, idx, nextManifest, rawErr, retries, invoked,
                   handled, log, result, pre, ncmds, last, ejected, targetPath,
                   args, resolved, names, env>>

NextCli ==
    \/ ParseFlags
    \/ (cli.stage = "run" /\ (StartSync \/ StartPartialSync \/ StartAddFiles
                                \/ RemoveFiles))
    \/ SyncFile
    \/ AddFileStep
    \/ CliHandler
    \/ SyncFinish
    \/ PartialSyncFinish
    \/ AddFilesFinish
    \/ CliExit

SpecCli == Init /\ [][NextCli]_vars

\* The log entries of a failure that did not end the command: a file that
\* errorHandler let go, or a removal of autoclean that failed.
SuppressedFailures ==
    {i \in DOMAIN log :
        \/ log[i].operation = OperationRemove /\ log[i].reason # NoError
        \/ /\ log[i].operation = OperationSkip
           /\ cmd.name # "remove"
           /\ ~IsNotNeeded(log[i].reason)}

\* C23: a command in which a failure of a file was let go (by errorHandler,
\* with --force or without, or by autoclean for a removal) exits with a
\* status other than 0.
C23_SuppressedFailureExitsNonZero ==
    (cli.stage = "exited" /\ SuppressedFailures # {}) => cli.status # 0

\* C23 (the part that holds): when errorHandler was called without --force
\* the command exits with a status other than 0, and a command that exits
\* with 0 has skipped no file in its pass but the up-to-date ones, unless
\* --force was given and the file was in the way.
C23_HandledFailureExitsNonZero ==
    cli.stage = "exited" =>
        /\ (handled # << >> /\ ~cli.force) => cli.status # 0
        /\ cli.status = 1 <=> result # NoError
        /\ cli.status = 0 =>
              \A i \in SuppressedFailures :
                 \/ log[i].operation = OperationRemove
                 \/ cli.force /\ IsExist(log[i].reason)

\* A link pass without --force met a file in the way, went on, linked
\* another file, and exited with status 2.
C23_Witness ==
    /\ cli.stage = "exited"
    /\ ~cli.force
    /\ cli.status = 2
    /\ cmd.name = "link"
    /\ \E i, j \in DOMAIN log :
          /\ log[i].operation = OperationSkip
          /\ IsExist(log[i].reason)
          /\ log[j].operation = OperationLink


\* ------------------------------------------------------------------------
\* What a successful add leaves behind.

\* The log entries of the files AddFiles added.
Added == {i \in DOMAIN log : log[i].operation = OperationAdd}

InsideDfm(name) == HasPrefix(name, WorkDir \o Slash)

\* C25: AddFiles adds no file of the dfm directory: no such file is in the
\* list it hands to addFile, none is logged as added, and none is put into
\* the manifest.
C25_NothingInsideDfmAdded ==
    (cmd.name = "add" /\ pc \in {"operate", "done"}) =>
        /\ \A i \in DOMAIN fileList : ~InsideDfm(TargetPathOf(fileList[i].relative))
        /\ \A i \in DOMAIN log : ~InsideDfm(TargetPathOf(log[i].relative))
        /\ \A name \in manifest : ~InsideDfm(TargetPathOf(name))

\* C25 (the part that holds): when an input itself names a file of the dfm
\* directory, AddFiles hands no file to addFile: nothing is added, nothing is
\* logged, and the manifest and the file system stay as they were; AddFiles
\* returns an error, which for a single input says that the file is already
\* inside the dfm directory.
C25_InputInsideDfmRejected ==
    (cmd.name = "add" /\ \E name \in GivenNames : InsideDfm(name)) =>
        /\ pc \notin {"operate", "done"}
        /\ log = << >>
        /\ manifest = {<<"a">>, <<"d", "/", "c">>}
        /\ names = {FileNameOrder[i] : i \in DOMAIN FileNameOrder}
        /\ pc = "exit" =>
              /\ result # NoError
              /\ Len(resolved) = 1 =>
                    result.message =
                        "cannot add a file already inside the dfm directory"

\* C25 witness: AddFiles was called with a file of the repo alone and
\* returned that the file is already inside the dfm directory.
C25_Witness ==
    /\ cmd.name = "add"
    /\ pc = "exit"
    /\ args = << >>
    /\ Len(resolved) = 1
    /\ InsideDfm(resolved[1].name)
    /\ result.message = "cannot add a file already inside the dfm directory"
    /\ log = << >>


\* ------------------------------------------------------------------------
\* The log entry of a file that is already up to date.

\* The entries of files skipped without a call of the ErrorHandler: the
\* operation reported ErrNotNeeded.
UpToDateEntries ==
    {i \in DOMAIN log :
        /\ log[i].operation = OperationSkip
        /\ cmd.name \in {"link", "copy", "eject", "add"}
        /\ \A j \in DOMAIN handled : handled[j].relative # log[i].relative}

\* The entries of files skipped because the ErrorHandler returned nil.
LetGoEntries ==
    {i \in DOMAIN log :
        /\ log[i].operation = OperationSkip
        /\ \E j \in DOMAIN handled :
              /\ handled[j].relative = log[i].relative
              /\ handled[j].ret = NoError}

NoEscalation == \A j \in DOMAIN handled : handled[j].ret \in {NoError, Retry}

\* The relative paths of the log entries that are no removals, in order.
HandledInOrder ==
    LET entries == SelectSeq(log, LAMBDA e : e.operation # OperationRemove)
    IN  [i \in DOMAIN entries |-> entries[i].relative]

\* C27: when the ErrorHandler returns nil for the failure of a file, the
\* file is logged as skipped with that failure as its reason and the pass
\* goes on to the next file without an error; a pass in which the handler
\* let failures go and escalated none has handled every file of its list,
\* in order, and returns nil.
C27_AcceptedFailureSkipped ==
    /\ [][(pc = "handler" /\ Len(handled') = Len(handled) + 1
             /\ handled'[Len(handled')].ret = NoError) =>
            /\ rawErr # NoError
            /\ ~IsNotNeeded(rawErr)
            /\ log' = Append(log, LogEntry(OperationSkip, fileList[idx].relative,
                                           fileList[idx].repo, rawErr))
            /\ idx' = idx + 1
            /\ retries' = 0
            /\ result' = NoError
            /\ pc' \in {"sync", "add"}]_vars
    /\ []((pc = "done" /\ LetGoEntries # {} /\ NoEscalation) =>
            /\ result = NoError
            /\ HandledInOrder = [i \in DOMAIN fileList |-> fileList[i].relative])

\* C27 witness: in a pass over three files the handler let the failure of
\* the second go; the third was linked after it and the pass returned nil.
C27_Witness ==
    /\ pc = "done"
    /\ cmd.name = "link"
    /\ result = NoError
    /\ Len(fileList) = 3
    /\ Len(log) >= 3
    /\ log[1].operation = OperationLink
    /\ log[2].operation = OperationSkip
    /\ ~IsNotNeeded(log[2].reason)
    /\ \E j \in DOMAIN handled :
          handled[j] = [relative |-> fileList[2].relative, ret |-> NoError]
    /\ log[3].operation = OperationLink
    /\ log[3].relative = fileList[3].relative


\* ------------------------------------------------------------------------
\* How often the Logger is called for a file.

\* A command with a pass over files (syncFiles, or the loop of AddFiles) has
\* returned.
AnyPassDone == pc = "done" /\ cmd.name \in {"link", "copy", "eject", "add"}

\* C28: the Logger is called exactly once for each file the pass handled,
\* whatever the number of attempts and the outcome, and once for each
\* orphaned path when autoclean ran.
C28_LoggedOncePerFile ==
    AnyPassDone =>
        /\ \A p \in Range(invoked) : Cardinality(SyncEntries(p)) = 1
        /\ (cmd.full /\ result = NoError) =>
              \A p \in Orphans : Cardinality(RemovalsOf(p)) = 1

\* C28 (amended): the Logger is called exactly once for each file the pass
\* has finished with (applied or skipped), whatever the number of attempts,
\* not at all for the file on which the pass aborted nor for the files
\* after it, and once for each orphaned path when autoclean ran; the log
\* holds nothing else.
C28_LoggedOncePerFinishedFile ==
    AnyPassDone =>
        /\ \A i \in DOMAIN fileList :
              Cardinality(SyncEntries(fileList[i].relative))
                  = IF /\ fileList[i].relative \in Range(invoked)
                       /\ ~(result # NoError /\ i = idx)
                    THEN 1 ELSE 0
        /\ (cmd.full /\ result = NoError) =>
              \A p \in Orphans : Cardinality(RemovalsOf(p)) = 1
        /\ \A j \in Removals :
              /\ cmd.full
              /\ result = NoError
              /\ log[j].relative \in Orphans
        /\ \A j \in DOMAIN log \ Removals : log[j].relative \in Keys(fileList)

\* C28 witness: a pass attempted one file twice and logged it once, then
\* aborted on another file, which is not in the log.
C28_Witness ==
    /\ AnyPassDone
    /\ result # NoError
    /\ idx \in DOMAIN fileList
    /\ SyncEntries(fileList[idx].relative) = {}
    /\ fileList[idx].relative \in Range(invoked)
    /\ \E p \in Range(invoked) :
          /\ Invocations(p) = 2
          /\ Cardinality(SyncEntries(p)) = 1

\* ------------------------------------------------------------------------
\* processWithRetry on its own: one file, a process function and an
\* ErrorHandler that are given in advance
\* ------------------------------------------------------------------------

\* The number of attempts the model tells apart: the counter of attempts
\* stops there, the loop does not.
MaxAttempts == 3

\* What one call of process may return: nil, "already up to date", or a
\* failure of the file system.
Outcomes ==
    {NoError, WrapFileError(ErrNotNeeded, PathOrder[1]),
     WrapFileError(OsError("EEXIST"), PathOrder[1])}

\* What an ErrorHandler may return.
Answers == {NoError, Retry, HandlerError}

\* The attempt the loop is in after n jumps back to its label; every attempt
\* from MaxAttempts on behaves like attempt MaxAttempts.
AttemptOf(n) == IF n + 1 < MaxAttempts THEN n + 1 ELSE MaxAttempts

\* The label "retry" is reached once more.
GotoRetry(n) == IF n < MaxAttempts THEN n + 1 ELSE n

RetryUnchanged ==
    UNCHANGED <<repoDirs, repoFiles, target, tomlFile, repos, manifest, DryRun,
                cmd, fileList, idx, nextManifest, invoked, pre, ncmds, last,
                ejected, targetPath, args, resolved, names, cli, env>>

\* rawErr := process(), and the two returns that do not ask the handler.
RetryProcess ==
    /\ pc = "process"
    /\ LET raw == env.process[AttemptOf(retries)]
           res == processResult(raw)
       IN  /\ rawErr' = raw
           /\ IF res.handler
              THEN /\ pc' = "handler"
                   /\ UNCHANGED log
              ELSE /\ pc' = "returned"
                   /\ log' = Append(log,
                          LogEntry(IF res.skipped THEN OperationSkip ELSE OperationLink,
                                   PathOrder[1], "one", res.reason))
    /\ UNCHANGED <<retries, handled, result>>
    /\ RetryUnchanged

\* newErr := errorHandler(rawErr), and what the loop does with it.
RetryHandler ==
    /\ pc = "handler"
    /\ LET newErr == env.handler[AttemptOf(retries)]
           res == handlerResult(rawErr, newErr)
       IN  /\ handled' = <<newErr>>
           /\ IF res.retry
              THEN /\ pc' = "process"
                   /\ retries' = GotoRetry(retries)
                   /\ UNCHANGED <<log, result>>
              ELSE /\ pc' = "returned"
                   /\ UNCHANGED retries
                   /\ IF res.aborted
                      THEN /\ result' = res.reason
                           /\ UNCHANGED log
                      ELSE /\ log' = Append(log,
                                  LogEntry(OperationSkip, PathOrder[1], "one", res.reason))
                           /\ UNCHANGED result
    /\ UNCHANGED rawErr
    /\ RetryUnchanged

\* Every process function and every ErrorHandler, attempt by attempt.
InitRetry ==
    \E process \in [1..MaxAttempts -> Outcomes], handler \in [1..MaxAttempts -> Answers] :
        /\ repoDirs = {"one"}
        /\ repoFiles = NoRepoFiles
        /\ target = NoTarget
        /\ tomlFile = [repos |-> <<"one">>, manifest |-> {}]
        /\ repos = tomlFile.repos
        /\ manifest = tomlFile.manifest
        /\ DryRun = FALSE
        /\ pc = "process"
        /\ cmd = NoCmd
        /\ fileList = << >>
        /\ idx = 1
        /\ nextManifest = {}
        /\ rawErr = NoError
        /\ retries = 0
        /\ invoked = << >>
        /\ handled = << >>
        /\ log = << >>
        /\ result = NoError
        /\ pre = NoPre
        /\ ncmds = 0
        /\ last = NoLast
        /\ ejected = {}
        /\ targetPath = Home
        /\ args = << >>
        /\ resolved = << >>
        /\ names = {}
        /\ cli = NoCli
        /\ env = [process |-> process, handler |-> handler]

NextRetry == RetryProcess \/ RetryHandler

\* The loop is sequential code: a step that can be taken is taken.
SpecRetry == InitRetry /\ [][NextRetry]_vars /\ WF_vars(NextRetry)

\* The process function fails at every attempt.
AlwaysFails == \A i \in 1..MaxAttempts : processResult(env.process[i]).handler

\* The ErrorHandler answers Retry at every attempt.
AlwaysRetries == \A i \in 1..MaxAttempts : env.handler[i] = Retry

\* The attempt at hand ends the loop: it succeeded or found the file up to
\* date, or the handler answered something other than Retry.
EndsLoop ==
    \/ /\ pc = "process"
       /\ \/ env.process[AttemptOf(retries)] = NoError
          \/ IsNotNeeded(env.process[AttemptOf(retries)])
    \/ /\ pc = "handler"
       /\ env.handler[AttemptOf(retries)] # Retry

\* C29: the retry loop has no cap on its iterations. A step of
\* processWithRetry returns exactly when the attempt succeeded or reported
\* "already up to date", or the handler returned something other than Retry;
\* otherwise the loop goes on, however many attempts came before. With a
\* process function that always fails and a handler that always answers
\* Retry it never returns and comes back to its label again and again; with
\* any other pair it returns.
C29_RetryLoopUnbounded ==
    /\ [][(pc' = "returned") <=> EndsLoop]_vars
    /\ [](AlwaysFails /\ AlwaysRetries => pc # "returned")
    /\ (AlwaysFails /\ AlwaysRetries) => []<>(pc = "process" /\ retries = MaxAttempts)
    /\ ~(AlwaysFails /\ AlwaysRetries) => <>(pc = "returned")

\* The process function always fails, the handler always answers Retry, the
\* loop has been through more attempts than are told apart, and is about to
\* call process again.
C29_Witness ==
    /\ AlwaysFails
    /\ AlwaysRetries
    /\ retries = MaxAttempts
    /\ pc = "process"
    /\ handled = <<Retry>>

\* ------------------------------------------------------------------------
\* autoclean in a dry run
\* ------------------------------------------------------------------------

\* A command that reached autoclean has returned: a full pass that went
\* through, or a removal.
AutocleanDone ==
    /\ pc = "done"
    /\ \/ cmd.name = "remove"
       \/ cmd.full /\ cmd.name # "init" /\ result = NoError

\* The tracked paths the candidate manifest does not hold.
Orphaned == pre.manifest \ nextManifest

\* The "removed" entries of the log for a path.
RemovedEntries(filename) ==
    {i \in DOMAIN log : log[i].operation = OperationRemove /\ log[i].relative = filename}

\* C30: in a dry run, autoclean logs one "removed" entry without an error for
\* every orphaned path and drops the path from the manifest in memory, while
\* the target and the saved configuration stay as they were.
C30_DryRunAutoclean ==
    (AutocleanDone /\ DryRun) =>
        /\ \A filename \in Orphaned :
              /\ Cardinality(RemovedEntries(filename)) = 1
              /\ \A i \in RemovedEntries(filename) :
                    log[i] = LogEntry(OperationRemove, filename, "", NoError)
              /\ filename \notin manifest
              /\ target[filename] = pre.target[filename]
        /\ manifest = nextManifest
        /\ target = pre.target
        /\ tomlFile = pre.tomlFile

\* A dry run dropped an orphaned path whose file is still in the target and
\* still listed in the saved manifest.
C30_Witness ==
    /\ AutocleanDone
    /\ DryRun
    /\ \E filename \in Orphaned :
          /\ pre.target[filename] # Absent
          /\ target[filename] = pre.target[filename]
          /\ filename \in tomlFile.manifest
          /\ filename \notin manifest
          /\ RemovedEntries(filename) # {}

\* ------------------------------------------------------------------------
\* A link pass over links of earlier passes
\* ------------------------------------------------------------------------

\* The paths some active repo holds.
HeldPaths == {p \in Paths : HolderIndexes(p) # {}}

\* The last listed active repo that holds a path.
LastHolder(p) ==
    repos[CHOOSE j \in HolderIndexes(p) : \A k \in HolderIndexes(p) : k <= j]

\* A full link pass of the command line without --force has gone through.
PlainLinkPassDone ==
    /\ pc = "done"
    /\ cli.stage \in {"run", "exited"}
    /\ ~cli.force
    /\ cmd.name = "link"
    /\ cmd.full
    /\ ~DryRun
    /\ result = NoError

\* Before the pass, whatever was at a path held by an active repo was a
\* symlink of a path dfm tracks, and no file of the user's stood where a
\* directory is needed.
OnlyEarlierLinks ==
    \A p \in HeldPaths :
        /\ pre.target[p] = Absent
              \/ (pre.target[p].kind = "link" /\ p \in pre.manifest)
        /\ \A i \in DOMAIN Ancestors(p) :
              pre.target[Ancestors(p)[i]].kind \in {"absent", "dir"}

\* C31: after a full link pass (no dry run, the command line's handler
\* without --force) over a target that holds, at the resolved paths, nothing
\* but links of earlier passes, every path an active repo holds is a symlink
\* to the copy in the last listed active repo that holds it, also when the
\* link of the earlier pass points at another repo.
C31_LinksPointAtLastRepo ==
    (PlainLinkPassDone /\ OnlyEarlierLinks) =>
        \A p \in HeldPaths : target[p] = LinkEntry(LastHolder(p))

\* C31 (the part that holds): after such a pass a path that was absent is a
\* symlink to the copy in the last listed active repo that holds it, and a
\* path that was a symlink is the symlink it was: it points at that copy
\* only if it did before.
C31_AbsentLinkedOthersKept ==
    (PlainLinkPassDone /\ OnlyEarlierLinks) =>
        \A p \in HeldPaths :
            /\ pre.target[p] = Absent => target[p] = LinkEntry(LastHolder(p))
            /\ pre.target[p] # Absent => target[p] = pre.target[p]
            /\ p \in manifest

\* A pass linked one path afresh and left another, whose file had moved to
\* another repo, pointing where the earlier pass had linked it.
C31_Witness ==
    /\ PlainLinkPassDone
    /\ OnlyEarlierLinks
    /\ \E p, q \in HeldPaths :
          /\ pre.target[p] = Absent
          /\ target[p] = LinkEntry(LastHolder(p))
          /\ pre.target[q].kind = "link"
          /\ pre.target[q] # LinkEntry(LastHolder(q))
          /\ target[q] = pre.target[q]

\* ------------------------------------------------------------------------
\* dfm init on a directory that is initialized already
\* ------------------------------------------------------------------------

\* A document as Save writes it: all three keys, an absolute target.
Initialized(doc) == doc.exists /\ doc.keys = ConfigKeys /\ IsAbs(doc.target)

\* Init saves the settings after the options of the command line.
InitSaves == pc = "options" /\ pc' = "written" /\ Len(args) = 1

\* C32: dfm init on an initialized directory stores the repo list of --repos
\* when the option is given and the stored one otherwise, the absolute
\* directory of --target when that option is given and the stored one
\* otherwise, and the stored manifest: with only --repos given the repo list
\* is replaced and the target path and the manifest stay as they were.
C32_InitOverridesGivenOnly ==
    [][(InitSaves /\ Initialized(tomlFile)) =>
          /\ Initialized(tomlFile')
          /\ tomlFile'.repos = IF "repos" \in args[1].nil
                               THEN tomlFile.repos
                               ELSE args[1].Repos
          /\ tomlFile'.target = IF args[1].Target = EmptyString
                                THEN tomlFile.target
                                ELSE args[1].Target
          /\ configToManifest(tomlFile'.manifest) = configToManifest(tomlFile.manifest)]_vars

\* Init was run with --repos two,one and no --target on a directory whose
\* document named another repo list, a target and a tracked path: the saved
\* document has the new repo list, that target and a tracked path.
C32_Witness ==
    /\ pc = "written"
    /\ Len(args) = 1
    /\ "repos" \notin args[1].nil
    /\ args[1].Target = EmptyString
    /\ tomlFile.repos = <<"two", "one">>
    /\ tomlFile.target = <<"/", "s">>
    /\ tomlFile.manifest # << >>

\* ------------------------------------------------------------------------
\* The calls of the ErrorHandler
\* ------------------------------------------------------------------------

\* The attempt of a step: the operation of the current file is invoked.
Attempt == pc \in {"sync", "add"} /\ Len(invoked') = Len(invoked) + 1

\* An attempt's result that is a failure: neither nil nor "already up to
\* date".
IsFailure(err) == err # NoError /\ ~IsNotNeeded(err)

\* The attempts for a path that failed: all of them but the one that ended
\* with the path logged as applied or as up to date.
FailedAttempts(relative) ==
    IF \E i \in SyncEntries(relative) : ~IsFailure(log[i].reason)
    THEN Invocations(relative) - 1
    ELSE Invocations(relative)

\* The failed attempt the ErrorHandler has yet to see.
Pending(relative) ==
    IF pc = "handler" /\ fileList[idx].relative = relative THEN 1 ELSE 0

\* C33: the ErrorHandler is called once for every failed attempt of a file's
\* operation, with the failure of that attempt, and is not called for an
\* attempt that returned nil or "already up to date": an attempt is followed
\* by a call of the handler exactly when it failed, a call of the handler is
\* one call, and at any time a file has as many answers of the handler as
\* failed attempts the handler has been told of.
C33_HandlerOncePerFailure ==
    /\ [][Attempt =>
            /\ pc' = "handler" <=> IsFailure(rawErr')
            /\ pc' = "handler" => rawErr'.filename = fileList[idx].relative
            /\ pc' # "handler" =>
                  /\ Len(log') = Len(log) + 1
                  /\ ~IsFailure(log'[Len(log')].reason)
            /\ handled' = handled]_vars
    /\ [][(Len(handled') > Len(handled)) =>
            /\ pc = "handler"
            /\ pc' # "handler"
            /\ Len(handled') = Len(handled) + 1
            /\ handled'[Len(handled')].relative = fileList[idx].relative]_vars
    /\ [](\A p \in Paths : Len(AnswersFor(p)) + Pending(p) = FailedAttempts(p))

\* The operation of one file failed twice, the handler was called after
\* each failure, and the operation of another file went through without a
\* call of the handler.
C33_Witness ==
    /\ pc = "done"
    /\ \E p, q \in Keys(fileList) :
          /\ Invocations(p) = 2
          /\ Len(AnswersFor(p)) = 2
          /\ Invocations(q) = 1
          /\ Len(AnswersFor(q)) = 0
          /\ \E i \in SyncEntries(q) : log[i].reason = NoError

\* ------------------------------------------------------------------------
\* The order of a full pass
\* ------------------------------------------------------------------------

\* A full pass (LinkAll, CopyAll) is under way.
InFullPass == cmd.full /\ cmd.name \in {"link", "copy"} /\ pc \in {"sync", "handler"}

\* The place of a path in the order of sort.Strings.
RankOf(relative) == CHOOSE i \in DOMAIN PathOrder : PathOrder[i] = relative

\* C34: in a full pass no removal of autoclean is made or logged, and the
\* configuration is not written, while the files are synced; the last step
\* of the pass invokes no operation of a file, makes the removals in
\* ascending order of the relative paths, after every entry of the files,
\* and writes the configuration as it is after the removals.
C34_SyncThenCleanThenSave ==
    /\ [][(InFullPass /\ pc' # "done") =>
            /\ tomlFile' = tomlFile
            /\ manifest' = manifest
            /\ \A i \in DOMAIN log' : log'[i].operation # OperationRemove]_vars
    /\ [][(InFullPass /\ pc' = "done") =>
            /\ invoked' = invoked
            /\ handled' = handled
            /\ SubSeq(log', 1, Len(log)) = log
            /\ \A i \in DOMAIN log' :
                  (log'[i].operation = OperationRemove) <=> (i > Len(log))
            /\ \A i, j \in DOMAIN log' :
                  (Len(log) < i /\ i < j) =>
                      RankOf(log'[i].relative) < RankOf(log'[j].relative)
            /\ tomlFile' # tomlFile => tomlFile'.manifest = manifest']_vars

\* A full pass synced a file and then removed two orphaned paths, and the
\* saved manifest is the one after the removals.
C34_Witness ==
    /\ FullPassDone
    /\ ~DryRun
    /\ Cardinality(Removals) = 2
    /\ \E i \in DOMAIN log : log[i].operation = cmd.operation
    /\ tomlFile # pre.tomlFile
    /\ tomlFile.manifest = manifest

\* ------------------------------------------------------------------------
\* The manifest in AddFiles
\* ------------------------------------------------------------------------

\* What a path may look like when AddFiles starts: nothing there, a file
\* of the user's that no repo holds or that a repo holds too, a symlink to
\* the repo's file that the manifest does not track, and one it tracks.
AddSituations ==
    {[holders |-> {}, entry |-> Absent, tracked |-> FALSE],
     [holders |-> {}, entry |-> FileEntry(UserContent), tracked |-> FALSE],
     [holders |-> {"one"}, entry |-> FileEntry(UserContent), tracked |-> FALSE],
     [holders |-> {"one"}, entry |-> LinkEntry("one"), tracked |-> FALSE],
     [holders |-> {"one"}, entry |-> LinkEntry("one"), tracked |-> TRUE]}

InitAddLoop ==
    \E setup \in Setups, sit \in [Paths -> AddSituations] :
        /\ \A p \in Paths : sit[p].holders \subseteq setup.dirs
        /\ InitOf(setup, sit, {})

SpecAddLoop == InitAddLoop /\ [][NextAdd]_vars

\* The paths AddFiles logged as added without an error.
AddedPaths ==
    {log[i].relative : i \in {j \in Added : log[j].reason = NoError}}

\* The loop of AddFiles is under way.
InAddLoop == cmd.name = "add" /\ pc \in {"add", "handler"}

\* C35: AddFiles puts a path into the manifest only in the step in which its
\* add succeeds. After the call the manifest is the one it found plus the
\* paths logged as added: a skipped file (let go by the handler, or linked
\* already) and the file of an abort are in it only if they were before, the
\* files added before an abort are in it, and the saved document holds this
\* manifest unless the run is a dry run.
C35_ManifestOnlyAfterSuccess ==
    /\ [][(InAddLoop /\ manifest' # manifest) =>
            /\ pc = "add"
            /\ Len(log') = Len(log) + 1
            /\ log'[Len(log')] = LogEntry(OperationAdd, fileList[idx].relative,
                                          fileList[idx].repo, NoError)
            /\ manifest' = manifest \cup {fileList[idx].relative}]_vars
    /\ [](AddDone =>
            /\ manifest = pre.manifest \cup AddedPaths
            /\ \A i \in DOMAIN log :
                  log[i].operation = OperationSkip =>
                      (log[i].relative \in manifest <=> log[i].relative \in pre.manifest)
            /\ (result # NoError /\ idx <= Len(fileList)) =>
                  (fileList[idx].relative \in manifest
                      <=> fileList[idx].relative \in pre.manifest)
            /\ ~DryRun => tomlFile.manifest = manifest
            /\ DryRun => tomlFile = pre.tomlFile)

\* A call of AddFiles added its first file and aborted at the second: the
\* first is in the manifest and in the saved document, the second is not.
C35_Witness ==
    /\ AddDone
    /\ ~DryRun
    /\ result # NoError
    /\ Len(fileList) = 2
    /\ idx = 2
    /\ fileList[1].relative \in AddedPaths
    /\ fileList[1].relative \notin pre.manifest
    /\ fileList[1].relative \in tomlFile.manifest
    /\ fileList[2].relative \notin manifest

\* ------------------------------------------------------------------------
\* Files of the user's that were in the way
\* ------------------------------------------------------------------------

\* The paths at which the target holds a file of the user's: one that was
\* there before dfm ran and that dfm has not replaced.
UsersFiles == {p \in Paths : target[p] = FileEntry(UserContent)}

\* C36: without --force a file of the user's that stood at a target path
\* before dfm processed the path is still there, with its content, after any
\* sequence of full passes, ejections and changes of the repo: no step but
\* the forced removal of the handler takes it away.
C36_UsersFileSurvives ==
    [][\A p \in UsersFiles : pc # "handler" => target'[p] = target[p]]_vars

\* C36 (the part that holds): the steps of a pass that sync a file leave a
\* file of the user's alone, and the autoclean of a full pass takes away
\* only a file whose path the manifest tracks and no active repo holds any
\* more.
C36_OnlyTrackedOrphansRemoved ==
    [][\A p \in UsersFiles :
          (pc # "handler" /\ target'[p] # target[p]) =>
              /\ pc = "sync"
              /\ pc' = "done"
              /\ cmd.full
              /\ result = NoError
              /\ p \in manifest
              /\ p \notin nextManifest
              /\ target'[p] = Absent]_vars

\* A full link pass skipped a path because a file of the user's was in the
\* way: the file is still there, and the manifest tracks the path.
C36_Witness ==
    /\ FullPassDone
    /\ cmd.name = "link"
    /\ \E p \in UsersFiles :
          /\ p \in manifest
          /\ p \in tomlFile.manifest
          /\ \E i \in SyncEntries(p) :
                /\ log[i].operation = OperationSkip
                /\ IsExist(log[i].reason)

\* ------------------------------------------------------------------------
\* How a path leaves the manifest
\* ------------------------------------------------------------------------

\* The step runs autoclean: the end of a full pass that went through, or
\* RemoveFiles and RemoveAll.
AutocleanStep ==
    \/ pc = "sync" /\ pc' = "done" /\ cmd.full /\ result = NoError
    \/ pc = "idle" /\ pc' = "done" /\ cmd'.name = "remove"

\* The step is the end of EjectFiles.
EjectStep == pc = "sync" /\ pc' = "done" /\ cmd.name = "eject"

\* The step is one in which a path may leave the manifest: autoclean has
\* logged its removal without an error, and the target is gone or the run is
\* a dry run; or it is a path EjectFiles resolved.
LeavesProperly(p) ==
    \/ /\ AutocleanStep
       /\ \E i \in DOMAIN log' : log'[i] = LogEntry(OperationRemove, p, "", NoError)
       /\ DryRun' \/ target'[p] = Absent
    \/ /\ EjectStep
       /\ p \in Keys(fileList)

\* C37: a path leaves the manifest in memory (while a command runs) or the
\* saved manifest only in a step of autoclean that removed its target
\* without an error, or would have in a dry run, or at the end of
\* EjectFiles; the steps of link, copy and add, whether the file is applied,
\* skipped or the pass aborts, take nothing out of either.
C37_LeavesOnlyByAutocleanOrEject ==
    /\ [][pc # "done" => \A p \in manifest \ manifest' : LeavesProperly(p)]_vars
    /\ [][\A p \in tomlFile.manifest \ tomlFile'.manifest :
              LeavesProperly(p) /\ ~DryRun']_vars
    /\ [][(pc \in {"sync", "add", "handler"} /\ cmd.name \in {"link", "copy", "add"}
             /\ ~AutocleanStep) =>
              /\ manifest \subseteq manifest'
              /\ tomlFile.manifest \subseteq tomlFile'.manifest]_vars

\* A full pass removed one orphaned path, which has left the manifest, and
\* failed to remove another, which is still tracked.
C37_Witness ==
    /\ FullPassDone
    /\ ~DryRun
    /\ \E p \in pre.manifest :
          /\ p \notin manifest
          /\ p \notin tomlFile.manifest
          /\ pre.target[p] # Absent
          /\ target[p] = Absent
    /\ \E q \in pre.manifest :
          /\ q \notin nextManifest
          /\ q \in tomlFile.manifest

\* ------------------------------------------------------------------------
\* The retries of the command line under --force
\* ------------------------------------------------------------------------

\* The number of retries of one file that are followed under --force.
MaxForceRetries == 3

ForceHandler == CliHandlerUpTo(MaxForceRetries)

\* The commands of the command line with --force given.
NextForce ==
    \/ (ParseFlags /\ cli'.force)
    \/ (cli.stage = "run" /\ (StartSync \/ StartPartialSync \/ StartAddFiles))
    \/ SyncFile
    \/ AddFileStep
    \/ ForceHandler
    \/ SyncFinish
    \/ PartialSyncFinish
    \/ AddFilesFinish
    \/ CliExit

SpecForce == Init /\ [][NextForce]_vars

\* The handler's forced removal in this step took away what was in the way
\* of the current file: the entry of the target, or for add the file of the
\* repo.
RemovedConflict ==
    LET relative == fileList[idx].relative
        repo == fileList[idx].repo
    IN IF cmd.name = "add"
       THEN /\ repoFiles[repo][relative] # NoFile
            /\ repoFiles'[repo][relative] = NoFile
       ELSE /\ target[relative] # Absent
            /\ target'[relative] = Absent

\* C38: with the command line's handler and --force the handler answers
\* Retry only for an "already exists" failure and only after it removed
\* what was in the way, the attempt after a retry does not fail with
\* "already exists" again, and the operation of a file is attempted at most
\* twice: the retry loop ends for every file.
C38_ForceRetriesAtMostOnce ==
    /\ [][(pc = "handler" /\ pc' # "handler"
             /\ handled'[Len(handled')].ret = Retry) =>
              /\ cli.force
              /\ IsExist(rawErr)
              /\ RemovedConflict]_vars
    /\ [][(Attempt /\ retries > 0) => ~IsExist(rawErr')]_vars
    /\ [](retries <= 1 /\ \A p \in Paths : Invocations(p) <= 2)

\* Under --force a link pass found a file in the way, removed it, and
\* linked the path at the second attempt.
C38_Witness ==
    /\ cli.stage = "exited"
    /\ cli.force
    /\ cmd.name = "link"
    /\ \E p \in Keys(fileList) :
          /\ Invocations(p) = 2
          /\ AnswersFor(p) = <<Retry>>
          /\ pre.target[p] = FileEntry(UserContent)
          /\ target[p] = LinkEntry(MapGet(fileList, p))

\* ------------------------------------------------------------------------
\* The file that is being added
\* ------------------------------------------------------------------------

\* The regular files AddFiles was given, by the walk of its inputs.
InputFiles == {p \in Keys(fileList) : pre.target[p].kind = "file"}

\* The content a file had when AddFiles started is at its target path or at
\* the same path of the repo it is added to.
ContentKept(p) ==
    \/ target[p] = pre.target[p]
    \/ repoFiles[MapGet(fileList, p)][p] = pre.target[p].src

\* C39: while AddFiles runs and after it has returned, whether a file was
\* added, skipped, failed, or the call aborted, the content of every regular
\* file it was given is at its target path or at the corresponding path of
\* the repo; a call that fails before its loop changes nothing.
C39_AddNeverLosesFile ==
    (cmd.name = "add" /\ pc # "idle") =>
        /\ \A p \in InputFiles : ContentKept(p)
        /\ (pc = "done" /\ fileList = << >>) =>
              /\ target = pre.target
              /\ repoFiles = pre.repoFiles

\* A call with linking moved its first file into the repo and aborted at
\* the second, whose path the repo held already: the first is in the repo,
\* the second still in the target.
C39_Witness ==
    /\ AddDone
    /\ ~DryRun
    /\ cmd.link
    /\ result # NoError
    /\ Len(fileList) = 2
    /\ idx = 2
    /\ fileList[1].relative \in InputFiles
    /\ fileList[2].relative \in InputFiles
    /\ target[fileList[1].relative] = LinkEntry(fileList[1].repo)
    /\ repoFiles[fileList[1].repo][fileList[1].relative] = UserContent
    /\ target[fileList[2].relative] = FileEntry(UserContent)
    /\ pre.repoFiles[fileList[2].repo][fileList[2].relative] # NoFile

====
